---------------------------- MODULE Spec2Model ----------------------------
(***************************************************************************)
(* Work log of a surveying office (repository DarkGnome/Vermessung).       *)
(*                                                                         *)
(* The repository holds several variants of the same application.  Three   *)
(* of them keep a table of log entries and are modelled here:              *)
(*                                                                         *)
(*   "LogApp"  src/src/main.py + src/src/storage.py + src/src/utils.py     *)
(*   "VL"      src/vermessung_log/app.py + src/vermessung_log/database.py  *)
(*   "MW"      src/app.py (its store class `Database` is not part of the   *)
(*             sources; the three store calls it makes are modelled from   *)
(*             the specification's EntryStore contract)                    *)
(*                                                                         *)
(* Numbers.  The code computes with binary floats; the model computes with *)
(* exact integers:                                                         *)
(*   - a time of day is a number of ticks since midnight, TicksPerMinute   *)
(*     ticks to the minute (the part of a QTime / datetime.time below the  *)
(*     minute is what "HH:MM" formatting drops);                           *)
(*   - workday hours and rounding steps are hundredths (8.0 h = 800,       *)
(*     0.05 = 5), the resolution of the spin boxes that supply them;       *)
(*   - a day fraction is a number of hundredths (1.0 = 100);               *)
(*   - a duration_hours column value is a number of thousandths of hours;  *)
(*   - a timestamp is a number of clock ticks, TicksPerSecond to a second; *)
(*   - in the report specification (variant "report") a calendar date is   *)
(*     the number yyyymmdd, which compares as the text YYYY-MM-DD does,    *)
(*     and a day fraction is a number of thousandths (0.125 = 125).        *)
(* On the input sets used below the float code was run and returns the     *)
(* same values as the integer operators.                                   *)
(***************************************************************************)
EXTENDS Integers, Sequences, FiniteSets, TLC

VARIABLES
    variant,    \* which application variant runs: "LogApp", "VL", "MW", or "calc"
    rows,       \* the entries table: id -> row
    seq,        \* sqlite_sequence of the AUTOINCREMENT key: largest id ever assigned
    clock,      \* the wall clock, in ticks
    form_date,  \* date_edit: the date shown in the header
    edit_id,    \* current_edit_id / editing_id; None is 0
    table,      \* the rows loaded into the table widget (LogApp: self.entries)
    last,       \* what the last handler was given and what it did
    calc,       \* the last call of a pure function and its result
    report      \* the last report or export made of the store, and how it ended

vars == <<variant, rows, seq, clock, form_date, edit_id, table, last, calc, report>>

-----------------------------------------------------------------------------
(* Bounds and input sets *)

MaxId == 2               \* ids the store hands out before the model stops inserting
MaxClock == 2            \* last clock tick of a run
TicksPerMinute == 2      \* resolution of a time of day below the minute
TicksPerSecond == 2      \* resolution of the wall clock below the second

NULL == -1               \* SQL NULL / Python None in a numeric column
None == 0                \* current_edit_id = None (ids start at 1)
NoText == "NULL"         \* SQL NULL / Python None in a text column

TimeOfDay(h, m, sub) == (h * 60 + m) * TicksPerMinute + sub

\* times of day: 08:00, 08:00 and a part of a minute (which the HH:mm display
\* does not show), 09:00 and 16:30
T0800 == TimeOfDay(8, 0, 0)
T0800s == TimeOfDay(8, 0, 1)
T0900 == TimeOfDay(9, 0, 0)
T1630 == TimeOfDay(16, 30, 0)
Times == {T0800, T0800s, T0900, T1630}

\* what the start and end fields of a saved form hold: an end before the
\* start, an end equal to the start, an interval within one minute, one hour,
\* seven and a half and eight and a half hours
Intervals ==
    { <<T0900, T0800>>, <<T0800, T0800>>, <<T0800, T0800s>>, <<T0800, T0900>>,
      <<T0900, T1630>>, <<T0800, T1630>> }

WorkdayHours == {800}            \* workday_hours spin box, hundredths of hours
RoundingSteps == {5}             \* rounding step spin box, hundredths
Dates == {1, 2}                  \* two calendar days
FractionTexts == {"0", "0,5", "1.0", "1.5"}   \* day_fraction_combo text

-----------------------------------------------------------------------------
(* Arithmetic *)

\* math.ceil(n / d) for integers n, d with d # 0
CeilDiv(n, d) ==
    LET nn == IF d < 0 THEN -n ELSE n
        dd == IF d < 0 THEN -d ELSE d
    IN  -((-nn) \div dd)

\* Python 3 round(n / d): to the nearest integer, a tie going to the even one
RoundHalfEven(n, d) ==
    LET nn == IF d < 0 THEN -n ELSE n
        dd == IF d < 0 THEN -d ELSE d
        f  == nn \div dd
        r2 == 2 * (nn - f * dd)
    IN  IF r2 < dd THEN f
        ELSE IF r2 > dd THEN f + 1
        ELSE IF f % 2 = 0 THEN f ELSE f + 1

\* the nearest integer to n / d, a tie going up: the rounding the specification names
RoundHalfUp(n, d) ==
    LET nn == IF d < 0 THEN -n ELSE n
        dd == IF d < 0 THEN -d ELSE d
    IN  (2 * nn + dd) \div (2 * dd)

\* duration_hours / workday_hours / step as a quotient of integers:
\* (ticks / (60 * TicksPerMinute)) / (wh / 100) / (step / 100)
QuotNum(start, end) == (end - start) * 100 * 100
QuotDen(workday_hours, step) == 60 * TicksPerMinute * workday_hours * step

\* results of a computation: a value, or the exception it raised
Value(v) == [kind |-> "value", value |-> v]
Raised(exc) == [kind |-> exc, value |-> NULL]


-----------------------------------------------------------------------------
(* The fraction computations (pure) *)

\* calculate_day_fraction with the time comparison weakened to end < start: a
\* faulty variant, which lets an empty interval through
calculate_day_fraction_end_before_start(start, end, workday_hours, step) ==
    IF end < start THEN Raised("InvalidTimeRange")
    ELSE IF workday_hours <= 0 THEN Raised("InvalidConfiguration")
    ELSE IF step = 0 THEN Raised("ZeroDivisionError")
    ELSE Value(RoundHalfEven(QuotNum(start, end), QuotDen(workday_hours, step)) * step)

\* src/src/utils.py: calculate_day_fraction.  start and end are datetime.time
\* values; the duration is taken to the second.
calculate_day_fraction(start, end, workday_hours, step) ==
    IF end <= start THEN Raised("InvalidTimeRange")
    ELSE IF workday_hours <= 0 THEN Raised("InvalidConfiguration")
    ELSE IF step = 0 THEN Raised("ZeroDivisionError")
    ELSE Value(RoundHalfEven(QuotNum(start, end), QuotDen(workday_hours, step)) * step)

\* time.strftime("%H:%M") / QTime.toString("HH:mm"): the minute of the day
FormatHHMM(t) == t \div TicksPerMinute

\* datetime.strptime(text, "%H:%M").time() / QTime.fromString(text, "HH:mm")
ParseHHMM(m) == m * TicksPerMinute

\* src/vermessung_log/app.py, the interval branch of _collect_entry_data: the
\* times are cut to hour and minute before they are compared and subtracted;
\* the product round(...) * rounding_step is compared with 1.0 as it is.
VL_interval_fraction(start, end, workday_hours, rounding_step) ==
    LET s == ParseHHMM(FormatHHMM(start))
        e == ParseHHMM(FormatHHMM(end))
    IN  IF e <= s THEN Raised("InvalidTimeRange")
        ELSE IF workday_hours = 0 \/ rounding_step = 0 THEN Raised("ZeroDivisionError")
        ELSE LET day_fraction ==
                     RoundHalfEven(QuotNum(s, e), QuotDen(workday_hours, rounding_step))
                         * rounding_step
             IN  IF day_fraction > 100 THEN Raised("FractionOutOfRange")
                 ELSE Value(day_fraction)

\* src/app.py: MainWindow._round_fraction, of the value n / d
ROUNDING_STEP_DEFAULT == 5

\* the pairs <<value, step>> of hundredths, among those given to the rounding
\* functions below, whose float quotient value / step lies above the whole
\* number it stands for (0.14 / 0.02 is 7.000000000000001), as found by
\* running the code: math.ceil takes such a quotient one up
FloatQuotientAbove == {<<14, 2>>, <<28, 2>>, <<56, 2>>}

MW_round_fraction(n, d, rounding_step) ==
    LET step == IF rounding_step # 0 THEN rounding_step ELSE ROUNDING_STEP_DEFAULT
        above == IF d = 100 /\ <<n, step>> \in FloatQuotientAbove THEN 1 ELSE 0
    IN  (CeilDiv(n * 100, d * step) + above) * step

\* src/app.py, the interval branch of _collect_form_data
MW_interval_fraction(start, end, workday_hours, rounding_step) ==
    IF end <= start THEN Raised("InvalidTimeRange")
    ELSE LET day_fraction ==
                 IF workday_hours > 0
                 THEN MW_round_fraction((end - start) * 100,
                                        60 * TicksPerMinute * workday_hours,
                                        rounding_step)
                 ELSE MW_round_fraction(0, 1, rounding_step)
         IN  IF day_fraction > 100 THEN Raised("FractionOutOfRange")
             ELSE Value(day_fraction)

\* src/database.py: round_to_step, value and step in hundredths
round_to_step(value, step) ==
    IF step <= 0 THEN value
    ELSE RoundHalfEven(value, step) * step

\* arguments the pure functions are called with, valid and invalid ones
CalcWorkdayHours == {-800, 0, 400, 800}
CalcSteps == {-5, 0, 5, 25}
CalcValues == {0, 12, 50, 63, 100}

NoCall ==
    [fn |-> "none", start |-> NULL, end |-> NULL, workday_hours |-> NULL,
     step |-> NULL, value |-> NULL,
     utils |-> Raised("none"), vl |-> Raised("none"), mw |-> Raised("none"),
     result |-> Raised("none")]

\* one interval and one configuration given to each of the three rounding sites
CallIntervalFraction ==
    /\ variant = "calc"
    /\ \E start \in Times, end \in Times, wh \in CalcWorkdayHours, step \in CalcSteps :
          calc' = [NoCall EXCEPT
                     !.fn = "interval_fraction",
                     !.start = start, !.end = end,
                     !.workday_hours = wh, !.step = step,
                     !.utils = calculate_day_fraction(start, end, wh, step),
                     !.vl = VL_interval_fraction(start, end, wh, step),
                     !.mw = MW_interval_fraction(start, end, wh, step)]
    /\ UNCHANGED <<variant, rows, seq, clock, form_date, edit_id, table, last, report>>

Call_round_to_step ==
    /\ variant = "calc"
    /\ \E value \in CalcValues, step \in CalcSteps :
          calc' = [NoCall EXCEPT
                     !.fn = "round_to_step",
                     !.value = value, !.step = step,
                     !.result = Value(round_to_step(value, step))]
    /\ UNCHANGED <<variant, rows, seq, clock, form_date, edit_id, table, last, report>>

\* src/src/utils.py, the last two lines of calculate_day_fraction:
\* round(round(raw_fraction / step) * step, 2), raw_fraction in hundredths
rounded(raw_fraction, step) == RoundHalfEven(raw_fraction, step) * step

\* values and steps a rounding is applied to twice, in hundredths
RoundValues == {0, 12, 13, 50, 63, 100}
RoundSteps == {2, 5, 25}

\* one value rounded with one step at each of the three rounding functions, and
\* the result rounded again with the same step: each site holds the pair of
\* the two results
CallRoundingTwice ==
    /\ variant = "calc"
    /\ \E value \in RoundValues, step \in RoundSteps :
          calc' = [NoCall EXCEPT
                     !.fn = "rounding_twice",
                     !.value = value, !.step = step,
                     !.utils = Value(<<rounded(value, step),
                                       rounded(rounded(value, step), step)>>),
                     !.mw = Value(<<MW_round_fraction(value, 100, step),
                                    MW_round_fraction(MW_round_fraction(value, 100, step),
                                                      100, step)>>),
                     !.result = Value(<<round_to_step(value, step),
                                        round_to_step(round_to_step(value, step), step)>>)]
    /\ UNCHANGED <<variant, rows, seq, clock, form_date, edit_id, table, last, report>>


-----------------------------------------------------------------------------
(* Entries, forms and what a handler reports *)

\* an entry: a LogEntry object or dict in the application (start_time and
\* end_time are times of day in ticks), a row in the table (start_time and
\* end_time are HH:MM texts, held as the minute of the day)
NoEntry ==
    [id |-> None, date |-> NULL, employee |-> "", site_name |-> "", kst |-> "",
     activity |-> "", start_time |-> NULL, end_time |-> NULL, day_fraction |-> NULL,
     duration_hours |-> NULL, result |-> "", notes |-> "",
     created_at |-> NULL, updated_at |-> NULL]

\* the text fields of the form as the user left them
CompleteTexts ==
    [employee |-> "eva", site_name |-> "A", kst |-> "100", activity |-> "Scan",
     result |-> "ok", notes |-> ""]

TextInputs ==
    { CompleteTexts,
      [CompleteTexts EXCEPT !.site_name = ""],
      [CompleteTexts EXCEPT !.employee = ""] }

\* getpass.getuser()
DefaultUser == "user"

\* the form a save reads: the text fields, the mode radio buttons, the two time
\* edits, the day fraction text and the two spin boxes of the header
Forms ==
    { [texts |-> CompleteTexts, mode |-> "interval", start |-> iv[1], end |-> iv[2],
       fraction_text |-> "", workday_hours |-> wh, step |-> st] :
         iv \in Intervals, wh \in WorkdayHours, st \in RoundingSteps }
    \cup
    { [texts |-> t, mode |-> "fraction", start |-> NULL, end |-> NULL,
       fraction_text |-> ft, workday_hours |-> wh, step |-> st] :
         t \in {CompleteTexts}, ft \in FractionTexts,
         wh \in WorkdayHours, st \in RoundingSteps }
    \cup
    { [texts |-> t, mode |-> "interval", start |-> T0900, end |-> T1630,
       fraction_text |-> "", workday_hours |-> wh, step |-> st] :
         t \in TextInputs \ {CompleteTexts},
         wh \in WorkdayHours, st \in RoundingSteps }

NoForm ==
    [texts |-> CompleteTexts, mode |-> "none", start |-> NULL, end |-> NULL,
     fraction_text |-> "", workday_hours |-> NULL, step |-> NULL]

\* what a handler did: op is the handler, form what a save read, entry what it
\* handed to the store, outcome how it ended, id the row it wrote or removed,
\* before the row an update replaced or a duplicate copied, as it was when the
\* handler began
Did(op, form, entry, outcome, id, before) ==
    [op |-> op, form |-> form, entry |-> entry, outcome |-> outcome, id |-> id,
     before |-> before]

\* the row of an id, NoEntry when there is none
RowOf(rws, id) == IF id \in DOMAIN rws THEN rws[id] ELSE NoEntry

\* a report made of the store: fn the function or handler called for the
\* month (year, month), engine whether the spreadsheet library could be
\* imported (NULL where none is needed), outcome how the call ended where it
\* was made, result the rows a query returned, file the sections of the file
\* written (<< >> when none was), message what the window told the user, arg
\* the field a query of the values of a field was asked for
Reported(fn, year, month, engine, outcome, result, file, message) ==
    [fn |-> fn, year |-> year, month |-> month, engine |-> engine,
     outcome |-> outcome, result |-> result, file |-> file, message |-> message,
     arg |-> NoText]

NoReport == Reported("none", NULL, NULL, NULL, "none", << >>, << >>, "none")

\* what a query leaves in report: field is the field asked for, if any
Queried(fn, field, r) ==
    [Reported(fn, NULL, NULL, NULL, IF r.kind = "value" THEN "returned" ELSE r.kind,
              IF r.kind = "value" THEN r.value ELSE << >>, << >>, "none")
        EXCEPT !.arg = field]

\* Python float(text) on the day fraction texts, in hundredths
ParseFloat(text) ==
    CASE text = "0"   -> Value(0)
      [] text = "0.5" -> Value(50)
      [] text = "1.0" -> Value(100)
      [] text = "1.5" -> Value(150)
      [] OTHER        -> Raised("ValueError")

\* text.replace(",", ".")
ReplaceComma(text) == IF text = "0,5" THEN "0.5" ELSE text

\* the ids of a set of rows in the order of a strict total order on them,
\* given as the set of the pairs <<i, j>> with i before j
InOrder(ids, before) ==
    CHOOSE s \in [1..Cardinality(ids) -> ids] :
        \A i, j \in 1..Cardinality(ids) : i < j => <<s[i], s[j]>> \in before

-----------------------------------------------------------------------------
(* Variant "LogApp": src/src/storage.py *)

\* the table with one row written (INSERT, or UPDATE of an existing row)
WithRow(rws, row) ==
    [i \in DOMAIN rws \cup {row.id} |-> IF i = row.id THEN row ELSE rws[i]]

\* the table without the row of an id (DELETE ... WHERE id = ?)
WithoutRow(rws, id) == [i \in DOMAIN rws \ {id} |-> rws[i]]

\* entry.start_time.strftime("%H:%M") if entry.start_time else None
storage_time_text(t) == IF t # NULL THEN FormatHHMM(t) ELSE NULL

\* storage.insert_entry: the row it writes; the key is the next of the sequence
storage_insert_entry(entry) ==
    [entry EXCEPT !.id = seq + 1,
                  !.start_time = storage_time_text(entry.start_time),
                  !.end_time = storage_time_text(entry.end_time)]

\* storage.update_entry with the time columns written only when the entry has
\* times (SET start_time = COALESCE(?, start_time)): a faulty variant
storage_update_entry_keeping_times(rws, entry_id, entry) ==
    IF entry_id \in DOMAIN rws
    THEN WithRow(rws, [entry EXCEPT
                         !.id = entry_id,
                         !.start_time = IF entry.start_time # NULL
                                        THEN storage_time_text(entry.start_time)
                                        ELSE rws[entry_id].start_time,
                         !.end_time = IF entry.end_time # NULL
                                      THEN storage_time_text(entry.end_time)
                                      ELSE rws[entry_id].end_time,
                         !.created_at = rws[entry_id].created_at])
    ELSE rws

\* storage.update_entry whose UPDATE has no WHERE clause, so that every row
\* is set: a faulty variant
storage_update_entry_without_where(rws, entry_id, entry) ==
    [i \in DOMAIN rws |->
        [entry EXCEPT !.id = i,
                      !.start_time = storage_time_text(entry.start_time),
                      !.end_time = storage_time_text(entry.end_time),
                      !.created_at = rws[i].created_at]]

\* storage.update_entry: the table after UPDATE ... WHERE id = entry_id; every
\* column but id and created_at is set; no row of that id, no change
storage_update_entry(rws, entry_id, entry) ==
    IF entry_id \in DOMAIN rws
    THEN WithRow(rws, [entry EXCEPT !.id = entry_id,
                                    !.start_time = storage_time_text(entry.start_time),
                                    !.end_time = storage_time_text(entry.end_time),
                                    !.created_at = rws[entry_id].created_at])
    ELSE rws

\* storage.delete_entry
storage_delete_entry(rws, entry_id) == WithoutRow(rws, entry_id)

\* storage._parse_time
storage_parse_time(text) == IF text = NULL THEN NULL ELSE ParseHHMM(text)

\* storage.row_to_entry
row_to_entry(row) ==
    [row EXCEPT !.start_time = storage_parse_time(row.start_time),
                !.end_time = storage_parse_time(row.end_time),
                !.notes = IF row.notes = NoText THEN "" ELSE row.notes]

\* storage.fetch_entries_for_date: ORDER BY created_at ASC; rows of one
\* created_at come in key order, the order of the table scan
fetch_entries_for_date(rws, target_date) ==
    LET ids == {i \in DOMAIN rws : rws[i].date = target_date}
        Before(i, j) == \/ rws[i].created_at < rws[j].created_at
                        \/ rws[i].created_at = rws[j].created_at /\ i < j
        order == InOrder(ids, {p \in ids \X ids : Before(p[1], p[2])})
    IN  [k \in 1..Cardinality(ids) |-> row_to_entry(rws[order[k]])]

\* storage.duplicate_entry whose copy keeps the timestamps of the original: a
\* faulty variant
storage_duplicate_entry_copying_timestamps(rws, entry_id, new_date, now) ==
    [row_to_entry(rws[entry_id]) EXCEPT
        !.id = None,
        !.date = IF new_date # NULL THEN new_date ELSE rws[entry_id].date]

\* storage.duplicate_entry: the entry it hands to insert_entry; the date is
\* new_date or existing.date (NULL stands for new_date=None)
storage_duplicate_entry(rws, entry_id, new_date, now) ==
    [row_to_entry(rws[entry_id]) EXCEPT
        !.id = None,
        !.date = IF new_date # NULL THEN new_date ELSE rws[entry_id].date,
        !.created_at = now, !.updated_at = now]

-----------------------------------------------------------------------------
(* Variant "LogApp": src/src/main.py *)

Built(entry) == [kind |-> "value", entry |-> entry]
Refused(why) == [kind |-> why, entry |-> NoEntry]

\* the out-of-range check with one rounding step of tolerance: a faulty variant
LogApp_fraction_too_large_by_a_step(day_fraction) == day_fraction > 100 + 5

\* the out-of-range check of the interval branch of _build_entry_from_form
LogApp_fraction_too_large(day_fraction) == day_fraction > 100

\* LogApp._build_entry_from_form
LogApp_build_entry_from_form(form, today_date, now) ==
    LET t == form.texts
        employee == IF t.employee # "" THEN t.employee ELSE DefaultUser
        entry(start_time, end_time, day_fraction) ==
            [id |-> None, date |-> today_date, employee |-> employee,
             site_name |-> t.site_name, kst |-> t.kst, activity |-> t.activity,
             start_time |-> start_time, end_time |-> end_time,
             day_fraction |-> day_fraction, duration_hours |-> NULL,
             result |-> t.result, notes |-> t.notes,
             created_at |-> now, updated_at |-> now]
    IN  IF t.site_name = "" \/ t.kst = "" \/ t.activity = "" \/ t.result = ""
        THEN Refused("ValidationError")
        ELSE IF form.mode = "interval"
        THEN LET fraction == calculate_day_fraction(form.start, form.end,
                                                    form.workday_hours, form.step)
             IN  IF fraction.kind # "value" THEN Refused(fraction.kind)
                 ELSE IF LogApp_fraction_too_large(fraction.value)
                 THEN Refused("FractionOutOfRange")
                 ELSE Built(entry(form.start, form.end, fraction.value))
        ELSE LET day_fraction == ParseFloat(ReplaceComma(form.fraction_text))
             IN  IF day_fraction.kind # "value" THEN Refused("InvalidFraction")
                 ELSE IF day_fraction.value <= 0 THEN Refused("FractionOutOfRange")
                 ELSE IF day_fraction.value > 100 THEN Refused("FractionOutOfRange")
                 ELSE Built(entry(NULL, NULL, day_fraction.value))

\* LogApp._existing_created_at
LogApp_existing_created_at(entry_id, now) ==
    IF \E k \in DOMAIN table : table[k].id = entry_id
    THEN table[CHOOSE k \in DOMAIN table : table[k].id = entry_id].created_at
    ELSE now

\* LogApp.load_entries without its last line, current_edit_id = None: a
\* faulty variant
LogApp_load_entries_keeping_edit_id(rws, date) ==
    /\ table' = fetch_entries_for_date(rws, date)
    /\ UNCHANGED edit_id

\* LogApp.load_entries, on the table as the handler left it
LogApp_load_entries(rws, date) ==
    /\ table' = fetch_entries_for_date(rws, date)
    /\ edit_id' = None

\* ids of the rows shown in the table widget: what the user can select
Selectable == {table[k].id : k \in DOMAIN table}

\* LogApp.save_entry
LogApp_save_entry ==
    /\ variant = "LogApp"
    /\ \E form \in Forms, now \in clock..MaxClock :
         LET built == LogApp_build_entry_from_form(form, form_date, now) IN
         /\ clock' = now
         /\ IF built.kind # "value"
            THEN /\ last' = Did("save", form, NoEntry, built.kind, None, NoEntry)
                 /\ UNCHANGED <<rows, seq, form_date, edit_id, table>>
            ELSE IF edit_id # None
            THEN LET entry == [built.entry EXCEPT
                                 !.created_at = LogApp_existing_created_at(edit_id, now)]
                     after == storage_update_entry(rows, edit_id, entry)
                 IN  /\ rows' = after
                     /\ last' = Did("save", form, entry, "updated", edit_id, RowOf(rows, edit_id))
                     /\ LogApp_load_entries(after, form_date)
                     /\ UNCHANGED <<seq, form_date>>
            ELSE /\ seq < MaxId
                 /\ LET row == storage_insert_entry(built.entry)
                        after == WithRow(rows, row)
                    IN  /\ rows' = after
                        /\ seq' = row.id
                        /\ last' = Did("save", form, built.entry, "inserted", row.id, NoEntry)
                        /\ LogApp_load_entries(after, form_date)
                        /\ UNCHANGED form_date
    /\ UNCHANGED <<variant, calc, report>>

\* LogApp.edit_selected: the entry is taken from self.entries, all of the date shown
LogApp_edit_selected ==
    /\ variant = "LogApp"
    /\ \E entry_id \in Selectable :
         /\ edit_id' = entry_id
         /\ last' = Did("edit", NoForm, NoEntry, "loaded", entry_id, NoEntry)
    /\ UNCHANGED <<variant, rows, seq, clock, form_date, table, calc, report>>

\* LogApp.delete_selected, the question answered with Yes
LogApp_delete_selected ==
    /\ variant = "LogApp"
    /\ \E entry_id \in Selectable :
         LET after == storage_delete_entry(rows, entry_id) IN
         /\ rows' = after
         /\ last' = Did("delete", NoForm, NoEntry, "deleted", entry_id, NoEntry)
         /\ LogApp_load_entries(after, form_date)
    /\ UNCHANGED <<variant, seq, clock, form_date, calc, report>>

\* LogApp.duplicate_selected
LogApp_duplicate_selected ==
    /\ variant = "LogApp"
    /\ seq < MaxId
    /\ \E entry_id \in Selectable, now \in clock..MaxClock :
         /\ entry_id \in DOMAIN rows
         /\ LET new_entry == storage_duplicate_entry(rows, entry_id, form_date, now)
                row == storage_insert_entry(new_entry)
                after == WithRow(rows, row)
            IN  /\ rows' = after
                /\ seq' = row.id
                /\ clock' = now
                /\ last' = Did("duplicate", NoForm, new_entry, "inserted", row.id,
                               RowOf(rows, entry_id))
                /\ LogApp_load_entries(after, form_date)
    /\ UNCHANGED <<variant, form_date, calc, report>>

\* date_edit.dateChanged -> LogApp.load_entries
LogApp_date_changed ==
    /\ variant = "LogApp"
    /\ \E d \in Dates \ {form_date} :
         /\ form_date' = d
         /\ last' = Did("date", NoForm, NoEntry, "loaded", None, NoEntry)
         /\ LogApp_load_entries(rows, d)
    /\ UNCHANGED <<variant, rows, seq, clock, calc, report>>

-----------------------------------------------------------------------------
(* Variant "VL": src/vermessung_log/database.py and src/vermessung_log/app.py *)

\* datetime.now().isoformat(timespec="seconds"): the clock cut to the second
IsoSeconds(now) == (now \div TicksPerSecond) * TicksPerSecond

\* DatabaseManager.insert_entry on a table whose key is INTEGER PRIMARY KEY
\* without AUTOINCREMENT (the key is one more than the largest in the table):
\* a faulty variant
DatabaseManager_insert_entry_reusing_rowid(entry) ==
    [entry EXCEPT !.id = IF DOMAIN rows = {} THEN 1
                         ELSE 1 + CHOOSE i \in DOMAIN rows : \A j \in DOMAIN rows : j <= i]

\* DatabaseManager.insert_entry: the row it writes
DatabaseManager_insert_entry(entry) == [entry EXCEPT !.id = seq + 1]

\* DatabaseManager.update_entry: the table after UPDATE ... WHERE id = :id; the
\* dict holds no created_at and that column is not set
DatabaseManager_update_entry(rws, entry_id, entry) ==
    IF entry_id \in DOMAIN rws
    THEN WithRow(rws, [entry EXCEPT !.id = entry_id,
                                    !.created_at = rws[entry_id].created_at])
    ELSE rws

\* DatabaseManager.delete_entry
DatabaseManager_delete_entry(rws, entry_id) == WithoutRow(rws, entry_id)

\* DatabaseManager.entries_for_date:
\* ORDER BY start_time IS NULL, start_time, created_at; rows equal in all three
\* come in key order, the order of the table scan
DatabaseManager_entries_for_date(rws, date_str) ==
    LET ids == {i \in DOMAIN rws : rws[i].date = date_str}
        Key(i) == <<IF rws[i].start_time = NULL THEN 1 ELSE 0,
                    rws[i].start_time, rws[i].created_at, i>>
        Before(i, j) ==
            \E k \in 1..4 : /\ Key(i)[k] < Key(j)[k]
                            /\ \A m \in 1..(k - 1) : Key(i)[m] = Key(j)[m]
        order == InOrder(ids, {p \in ids \X ids : Before(p[1], p[2])})
    IN  [k \in 1..Cardinality(ids) |-> rws[order[k]]]

\* the out-of-range check of the fraction branch of _collect_entry_data
VL_fraction_too_large(day_fraction) == day_fraction > 100

\* MainWindow._collect_entry_data
VL_collect_entry_data(form, selected_date, now) ==
    LET t == form.texts
        employee == IF t.employee # "" THEN t.employee ELSE DefaultUser
        notes == IF t.notes # "" THEN t.notes ELSE NoText
        created == IsoSeconds(now)
        entry(start_time_str, end_time_str, day_fraction, duration_hours) ==
            [id |-> None, date |-> selected_date, employee |-> employee,
             site_name |-> t.site_name, kst |-> t.kst, activity |-> t.activity,
             start_time |-> start_time_str, end_time |-> end_time_str,
             day_fraction |-> day_fraction, duration_hours |-> duration_hours,
             result |-> t.result, notes |-> notes,
             created_at |-> created, updated_at |-> created]
    IN  IF t.site_name = "" \/ t.kst = "" \/ t.activity = "" \/ t.result = ""
        THEN Refused("ValidationError")
        ELSE IF form.mode = "interval"
        THEN LET fraction == VL_interval_fraction(form.start, form.end,
                                                  form.workday_hours, form.step)
                 minutes == FormatHHMM(form.end) - FormatHHMM(form.start)
             IN  IF fraction.kind # "value" THEN Refused(fraction.kind)
                 ELSE Built(entry(FormatHHMM(form.start), FormatHHMM(form.end),
                                  fraction.value, RoundHalfEven(minutes * 1000, 60)))
        ELSE LET day_fraction == ParseFloat(form.fraction_text)
             IN  IF day_fraction.kind # "value" THEN Refused("InvalidFraction")
                 ELSE IF VL_fraction_too_large(day_fraction.value)
                 THEN Refused("FractionOutOfRange")
                 ELSE Built(entry(NULL, NULL, day_fraction.value,
                                  RoundHalfEven(day_fraction.value * form.workday_hours, 10)))

\* MainWindow.load_entries_for_selected_date
VL_load_entries_for_selected_date(rws, date) ==
    table' = DatabaseManager_entries_for_date(rws, date)

\* MainWindow.save_entry
VL_save_entry ==
    /\ variant = "VL"
    /\ \E form \in Forms, now \in clock..MaxClock :
         LET built == VL_collect_entry_data(form, form_date, now) IN
         /\ clock' = now
         /\ IF built.kind # "value"
            THEN /\ last' = Did("save", form, NoEntry, built.kind, None, NoEntry)
                 /\ UNCHANGED <<rows, seq, form_date, edit_id, table>>
            ELSE IF edit_id = None
            THEN /\ seq < MaxId
                 /\ LET row == DatabaseManager_insert_entry(built.entry)
                        after == WithRow(rows, row)
                    IN  /\ rows' = after
                        /\ seq' = row.id
                        /\ last' = Did("save", form, built.entry, "inserted", row.id, NoEntry)
                        /\ VL_load_entries_for_selected_date(after, form_date)
                        /\ edit_id' = None
                        /\ UNCHANGED form_date
            ELSE LET entry == [built.entry EXCEPT !.created_at = NULL,
                                                  !.updated_at = IsoSeconds(now)]
                     after == DatabaseManager_update_entry(rows, edit_id, entry)
                 IN  /\ rows' = after
                     /\ last' = Did("save", form, entry, "updated", edit_id, RowOf(rows, edit_id))
                     /\ VL_load_entries_for_selected_date(after, form_date)
                     /\ edit_id' = None
                     /\ UNCHANGED <<seq, form_date>>
    /\ UNCHANGED <<variant, calc, report>>

\* MainWindow.load_selected_entry: the row is read from the table by its key;
\* its date is the date shown, so date_edit does not change
VL_load_selected_entry ==
    /\ variant = "VL"
    /\ \E entry_id \in Selectable :
         /\ entry_id \in DOMAIN rows
         /\ edit_id' = entry_id
         /\ last' = Did("edit", NoForm, NoEntry, "loaded", entry_id, NoEntry)
    /\ UNCHANGED <<variant, rows, seq, clock, form_date, table, calc, report>>

\* MainWindow.delete_selected_entry, the question answered with Yes;
\* editing_id is left as it is
VL_delete_selected_entry ==
    /\ variant = "VL"
    /\ \E entry_id \in Selectable :
         LET after == DatabaseManager_delete_entry(rows, entry_id) IN
         /\ rows' = after
         /\ last' = Did("delete", NoForm, NoEntry, "deleted", entry_id, NoEntry)
         /\ VL_load_entries_for_selected_date(after, form_date)
    /\ UNCHANGED <<variant, seq, clock, form_date, edit_id, calc, report>>

\* MainWindow.duplicate_selected_entry
VL_duplicate_selected_entry ==
    /\ variant = "VL"
    /\ seq < MaxId
    /\ \E entry_id \in Selectable, now \in clock..MaxClock :
         /\ entry_id \in DOMAIN rows
         /\ LET new_entry == [rows[entry_id] EXCEPT
                                !.id = None, !.date = form_date,
                                !.created_at = IsoSeconds(now),
                                !.updated_at = IsoSeconds(now)]
                row == DatabaseManager_insert_entry(new_entry)
                after == WithRow(rows, row)
            IN  /\ rows' = after
                /\ seq' = row.id
                /\ clock' = now
                /\ last' = Did("duplicate", NoForm, new_entry, "inserted", row.id,
                               RowOf(rows, entry_id))
                /\ VL_load_entries_for_selected_date(after, form_date)
    /\ UNCHANGED <<variant, form_date, edit_id, calc, report>>

\* date_edit.dateChanged -> load_entries_for_selected_date
VL_date_changed ==
    /\ variant = "VL"
    /\ \E d \in Dates \ {form_date} :
         /\ form_date' = d
         /\ last' = Did("date", NoForm, NoEntry, "loaded", None, NoEntry)
         /\ VL_load_entries_for_selected_date(rows, d)
    /\ UNCHANGED <<variant, rows, seq, clock, edit_id, calc, report>>

-----------------------------------------------------------------------------
(* Variant "MW": src/app.py.  The class Database it imports is not among the *)
(* sources: EntryStore_* model its calls from the EntryStore contract.       *)

\* create(entry): assigns the identity and sets both timestamps to now
EntryStore_create(entry, now) ==
    [entry EXCEPT !.id = seq + 1, !.created_at = now, !.updated_at = now]

\* update(id, entry): replaces all mutable fields, preserves created_at,
\* refreshes updated_at; the id must exist
EntryStore_update(rws, entry_id, entry, now) ==
    WithRow(rws, [entry EXCEPT !.id = entry_id,
                               !.created_at = rws[entry_id].created_at,
                               !.updated_at = now])

\* delete(id): hard removal
EntryStore_delete(rws, entry_id) == WithoutRow(rws, entry_id)

\* list_by_date(date): interval entries in ascending start_time, then the
\* fraction entries; ties in creation order
EntryStore_list_by_date(rws, date_str) ==
    LET ids == {i \in DOMAIN rws : rws[i].date = date_str}
        Key(i) == <<IF rws[i].start_time = NULL THEN 1 ELSE 0, rws[i].start_time, i>>
        Before(i, j) ==
            \E k \in 1..3 : /\ Key(i)[k] < Key(j)[k]
                            /\ \A m \in 1..(k - 1) : Key(i)[m] = Key(j)[m]
        order == InOrder(ids, {p \in ids \X ids : Before(p[1], p[2])})
    IN  [k \in 1..Cardinality(ids) |-> rws[order[k]]]

\* fraction_spin values of the forms: left at 0.0, or set to 0.5
FractionSpins == {0, 50}

\* the forms of this variant: those of the others with fraction_spin at 0.0,
\* less the seven and a half hours and the text "1.0", and one with the spin
\* box set
MW_Forms ==
    { [form |-> f, fraction_spin |-> 0] :
        f \in {g \in Forms : IF g.mode = "interval"
                              THEN <<g.start, g.end>> # <<T0900, T1630>>
                              ELSE g.fraction_text # "1.0"} }
    \cup
    { [form |-> f, fraction_spin |-> sp] :
        f \in {g \in Forms : g.mode = "fraction" /\ g.fraction_text = "1.5"},
        sp \in FractionSpins }

\* MainWindow._collect_form_data; the duration_hours it puts into the dict is
\* the unrounded quotient, held here as the number of ticks
MW_collect_form_data(form, fraction_spin, date_str, rounding_step) ==
    LET t == form.texts
        data(start_time, end_time, duration_hours, day_fraction) ==
            [id |-> None, date |-> date_str, employee |-> t.employee,
             site_name |-> t.site_name, kst |-> t.kst, activity |-> t.activity,
             start_time |-> start_time, end_time |-> end_time,
             day_fraction |-> day_fraction, duration_hours |-> duration_hours,
             result |-> t.result, notes |-> t.notes,
             created_at |-> NULL, updated_at |-> NULL]
    IN  IF t.employee = "" \/ t.site_name = "" \/ t.kst = "" \/ t.activity = ""
           \/ t.result = ""
        THEN Refused("ValidationError")
        ELSE IF form.mode = "interval"
        THEN LET fraction == MW_interval_fraction(form.start, form.end,
                                                  form.workday_hours, rounding_step)
             IN  IF fraction.kind # "value" THEN Refused(fraction.kind)
                 ELSE Built(data(FormatHHMM(form.start), FormatHHMM(form.end),
                                 form.end - form.start, fraction.value))
        ELSE LET parsed == IF form.fraction_text # ""
                           THEN ParseFloat(form.fraction_text) ELSE Value(0)
             IN  IF fraction_spin <= 0 /\ parsed.kind # "value"
                 THEN Refused("ValueError")
                 ELSE LET fraction == IF fraction_spin > 0 THEN fraction_spin
                                      ELSE parsed.value
                      IN  IF fraction <= 0 THEN Refused("FractionOutOfRange")
                          ELSE IF fraction > 100 THEN Refused("FractionOutOfRange")
                          ELSE Built(data(NULL, NULL, NULL,
                                          MW_round_fraction(fraction, 100, rounding_step)))

\* MainWindow.refresh_table
MW_refresh_table(rws, date) == table' = EntryStore_list_by_date(rws, date)

\* MainWindow.save_entry
MW_save_entry ==
    /\ variant = "MW"
    /\ \E input \in MW_Forms, now \in clock..MaxClock :
         LET form == input.form
             built == MW_collect_form_data(form, input.fraction_spin, form_date, form.step)
         IN
         /\ clock' = now
         /\ IF built.kind # "value"
            THEN /\ last' = Did("save", form, NoEntry, built.kind, None, NoEntry)
                 /\ UNCHANGED <<rows, seq, form_date, edit_id, table>>
            ELSE IF edit_id # None
            THEN IF edit_id \notin DOMAIN rows
                 THEN /\ last' = Did("save", form, built.entry, "NotFoundError",
                                     edit_id, NoEntry)
                      /\ UNCHANGED <<rows, seq, form_date, edit_id, table>>
                 ELSE LET after == EntryStore_update(rows, edit_id, built.entry, now)
                      IN  /\ rows' = after
                          /\ last' = Did("save", form, built.entry, "updated",
                                         edit_id, RowOf(rows, edit_id))
                          /\ MW_refresh_table(after, form_date)
                          /\ edit_id' = None
                          /\ UNCHANGED <<seq, form_date>>
            ELSE /\ seq < MaxId
                 /\ LET row == EntryStore_create(built.entry, now)
                        after == WithRow(rows, row)
                    IN  /\ rows' = after
                        /\ seq' = row.id
                        /\ last' = Did("save", form, built.entry, "inserted", row.id, NoEntry)
                        /\ MW_refresh_table(after, form_date)
                        /\ edit_id' = None
                        /\ UNCHANGED form_date
    /\ UNCHANGED <<variant, calc, report>>

\* MainWindow.load_selected_into_form
MW_load_selected_into_form ==
    /\ variant = "MW"
    /\ \E entry_id \in Selectable :
         /\ entry_id \in DOMAIN rows
         /\ edit_id' = entry_id
         /\ last' = Did("edit", NoForm, NoEntry, "loaded", entry_id, NoEntry)
    /\ UNCHANGED <<variant, rows, seq, clock, form_date, table, calc, report>>

\* MainWindow.delete_selected, the question answered with Yes;
\* current_edit_id is left as it is
MW_delete_selected ==
    /\ variant = "MW"
    /\ \E entry_id \in Selectable :
         LET after == EntryStore_delete(rows, entry_id) IN
         /\ rows' = after
         /\ last' = Did("delete", NoForm, NoEntry, "deleted", entry_id, NoEntry)
         /\ MW_refresh_table(after, form_date)
    /\ UNCHANGED <<variant, seq, clock, form_date, edit_id, calc, report>>

\* MainWindow.duplicate_selected
MW_duplicate_selected ==
    /\ variant = "MW"
    /\ seq < MaxId
    /\ \E entry_id \in Selectable, now \in clock..MaxClock :
         /\ entry_id \in DOMAIN rows
         /\ LET data == [rows[entry_id] EXCEPT !.id = None, !.date = form_date,
                                               !.created_at = NULL, !.updated_at = NULL]
                row == EntryStore_create(data, now)
                after == WithRow(rows, row)
            IN  /\ rows' = after
                /\ seq' = row.id
                /\ clock' = now
                /\ last' = Did("duplicate", NoForm, data, "inserted", row.id,
                               RowOf(rows, entry_id))
                /\ MW_refresh_table(after, form_date)
    /\ UNCHANGED <<variant, form_date, edit_id, calc, report>>

\* date_edit.dateChanged -> refresh_table
MW_date_changed ==
    /\ variant = "MW"
    /\ \E d \in Dates \ {form_date} :
         /\ form_date' = d
         /\ last' = Did("date", NoForm, NoEntry, "loaded", None, NoEntry)
         /\ MW_refresh_table(rows, d)
    /\ UNCHANGED <<variant, rows, seq, clock, edit_id, calc, report>>

-----------------------------------------------------------------------------
(* Callers of the store modules other than the three windows: variants       *)
(* "storage" (src/src/storage.py), "DatabaseManager"                         *)
(* (src/vermessung_log/database.py) and "LogDatabase" (src/database.py)      *)

\* A change of the store leaves no result of an earlier query standing: the
\* callers below that write reset report.

\* ids a caller passes: any the sequence can have handed out, and one more
CallIds == 1..(MaxId + 1)

\* the forms whose entries a caller inserts: one hour in interval mode, and a
\* whole day in fraction mode
ApiForms ==
    {f \in Forms : /\ f.texts = CompleteTexts
                   /\ \/ f.mode = "interval" /\ f.start = T0800 /\ f.end = T0900
                      \/ f.mode = "fraction" /\ f.fraction_text = "1.0"}

\* storage.insert_entry called with a LogEntry
storage_insert_entry_called ==
    /\ variant = "storage"
    /\ seq < MaxId
    /\ \E form \in ApiForms, d \in Dates, now \in clock..MaxClock :
         LET entry == LogApp_build_entry_from_form(form, d, now).entry
             row == storage_insert_entry(entry)
         IN  /\ rows' = WithRow(rows, row)
             /\ seq' = row.id
             /\ clock' = now
             /\ last' = Did("insert_entry", NoForm, entry, "returned", row.id, NoEntry)
    /\ report' = NoReport
    /\ UNCHANGED <<variant, form_date, edit_id, table, calc>>

\* storage.delete_entry called with any id: DELETE ... WHERE id = ? and a
\* normal return, whether or not a row had that id
storage_delete_entry_called ==
    /\ variant = "storage"
    /\ \E entry_id \in CallIds :
         /\ rows' = storage_delete_entry(rows, entry_id)
         /\ last' = Did("delete_entry", NoForm, NoEntry, "returned", entry_id,
                        RowOf(rows, entry_id))
    /\ report' = NoReport
    /\ UNCHANGED <<variant, seq, clock, form_date, edit_id, table, calc>>

\* storage.duplicate_entry called with any id, with or without a new_date;
\* the report holds the arguments (the date, NULL for none) and the row copied
storage_duplicate_entry_called ==
    /\ variant = "storage"
    /\ \E entry_id \in CallIds, new_date \in Dates \cup {NULL}, now \in clock..MaxClock :
         LET args == [NoEntry EXCEPT !.date = new_date] IN
         IF entry_id \notin DOMAIN rows
         THEN /\ last' = Did("duplicate_entry", NoForm, args, "None", entry_id, NoEntry)
              /\ UNCHANGED <<rows, seq, clock>>
         ELSE /\ seq < MaxId
              /\ LET new_entry == storage_duplicate_entry(rows, entry_id, new_date, now)
                     row == storage_insert_entry(new_entry)
                 IN  /\ rows' = WithRow(rows, row)
                     /\ seq' = row.id
                     /\ clock' = now
                     /\ last' = Did("duplicate_entry", NoForm, args, "inserted", row.id,
                                    RowOf(rows, entry_id))
    /\ report' = NoReport
    /\ UNCHANGED <<variant, form_date, edit_id, table, calc>>

\* DatabaseManager.insert_entry called with a dict
DatabaseManager_insert_entry_called ==
    /\ variant = "DatabaseManager"
    /\ seq < MaxId
    /\ \E form \in ApiForms, d \in Dates, now \in clock..MaxClock :
         LET entry == VL_collect_entry_data(form, d, now).entry
             row == DatabaseManager_insert_entry(entry)
         IN  /\ rows' = WithRow(rows, row)
             /\ seq' = row.id
             /\ clock' = now
             /\ last' = Did("insert_entry", NoForm, entry, "returned", row.id, NoEntry)
    /\ report' = NoReport
    /\ UNCHANGED <<variant, form_date, edit_id, table, calc>>

\* DatabaseManager.delete_entry called with any id
DatabaseManager_delete_entry_called ==
    /\ variant = "DatabaseManager"
    /\ \E entry_id \in CallIds :
         /\ rows' = DatabaseManager_delete_entry(rows, entry_id)
         /\ last' = Did("delete_entry", NoForm, NoEntry, "returned", entry_id,
                        RowOf(rows, entry_id))
    /\ report' = NoReport
    /\ UNCHANGED <<variant, seq, clock, form_date, edit_id, table, calc>>

\* LogDatabase.add_entry: both timestamps are set to utcnow().isoformat()
LogDatabase_add_entry(entry, now) ==
    [entry EXCEPT !.id = seq + 1, !.created_at = now, !.updated_at = now]

\* LogDatabase.delete_entry
LogDatabase_delete_entry(rws, entry_id) == WithoutRow(rws, entry_id)

\* LogDatabase.add_entry called with a dict
LogDatabase_add_entry_called ==
    /\ variant = "LogDatabase"
    /\ seq < MaxId
    /\ \E form \in ApiForms, d \in Dates, now \in clock..MaxClock :
         LET entry == [VL_collect_entry_data(form, d, now).entry EXCEPT
                         !.created_at = NULL, !.updated_at = NULL]
             row == LogDatabase_add_entry(entry, now)
         IN  /\ rows' = WithRow(rows, row)
             /\ seq' = row.id
             /\ clock' = now
             /\ last' = Did("insert_entry", NoForm, entry, "returned", row.id, NoEntry)
    /\ report' = NoReport
    /\ UNCHANGED <<variant, form_date, edit_id, table, calc>>

\* LogDatabase.delete_entry called with any id
LogDatabase_delete_entry_called ==
    /\ variant = "LogDatabase"
    /\ \E entry_id \in CallIds :
         /\ rows' = LogDatabase_delete_entry(rows, entry_id)
         /\ last' = Did("delete_entry", NoForm, NoEntry, "returned", entry_id,
                        RowOf(rows, entry_id))
    /\ report' = NoReport
    /\ UNCHANGED <<variant, seq, clock, form_date, edit_id, table, calc>>

\* storage.update_entry called with any id and a LogEntry
storage_update_entry_called ==
    /\ variant = "storage"
    /\ \E entry_id \in CallIds, form \in ApiForms, d \in Dates, now \in clock..MaxClock :
         LET entry == LogApp_build_entry_from_form(form, d, now).entry IN
         /\ rows' = storage_update_entry(rows, entry_id, entry)
         /\ clock' = now
         /\ last' = Did("update_entry", NoForm, entry, "returned", entry_id,
                        RowOf(rows, entry_id))
    /\ report' = NoReport
    /\ UNCHANGED <<variant, seq, form_date, edit_id, table, calc>>

\* DatabaseManager.update_entry called with any id and a dict without
\* created_at
DatabaseManager_update_entry_called ==
    /\ variant = "DatabaseManager"
    /\ \E entry_id \in CallIds, form \in ApiForms, d \in Dates, now \in clock..MaxClock :
         LET entry == VL_collect_entry_data(form, d, now).entry IN
         /\ rows' = DatabaseManager_update_entry(rows, entry_id, entry)
         /\ clock' = now
         /\ last' = Did("update_entry", NoForm, entry, "returned", entry_id,
                        RowOf(rows, entry_id))
    /\ report' = NoReport
    /\ UNCHANGED <<variant, seq, form_date, edit_id, table, calc>>

\* LogDatabase.update_entry: the table after UPDATE ... WHERE id = :id with
\* the keys of the dict and updated_at = utcnow().isoformat()
LogDatabase_update_entry(rws, entry_id, entry, now) ==
    IF entry_id \in DOMAIN rws
    THEN WithRow(rws, [entry EXCEPT !.id = entry_id,
                                    !.created_at = rws[entry_id].created_at,
                                    !.updated_at = now])
    ELSE rws

\* LogDatabase.update_entry called with any id and a dict without timestamps
LogDatabase_update_entry_called ==
    /\ variant = "LogDatabase"
    /\ \E entry_id \in CallIds, form \in ApiForms, d \in Dates, now \in clock..MaxClock :
         LET entry == [VL_collect_entry_data(form, d, now).entry EXCEPT
                         !.created_at = NULL, !.updated_at = NULL]
         IN  /\ rows' = LogDatabase_update_entry(rows, entry_id, entry, now)
             /\ clock' = now
             /\ last' = Did("update_entry", NoForm, entry, "returned", entry_id,
                            RowOf(rows, entry_id))
    /\ report' = NoReport
    /\ UNCHANGED <<variant, seq, form_date, edit_id, table, calc>>

\* the ids of the rows that ORDER BY created_at DESC can put first: SQL leaves
\* the order of rows of one created_at open
LastByCreatedAt(rws) ==
    {i \in DOMAIN rws : \A j \in DOMAIN rws : rws[j].created_at <= rws[i].created_at}

\* storage.fetch_last_entry: the results it can return, << >> for None
fetch_last_entry(rws) ==
    IF DOMAIN rws = {} THEN { << >> }
    ELSE { <<row_to_entry(rws[i])>> : i \in LastByCreatedAt(rws) }

\* DatabaseManager.latest_entry (ORDER BY datetime(created_at) DESC LIMIT 1):
\* the results it can return
DatabaseManager_latest_entry(rws) ==
    IF DOMAIN rws = {} THEN { << >> }
    ELSE { <<rws[i]>> : i \in LastByCreatedAt(rws) }

\* LogDatabase.get_last_entry: ORDER BY id DESC LIMIT 1
LogDatabase_get_last_entry(rws) ==
    IF DOMAIN rws = {} THEN << >>
    ELSE << rws[CHOOSE i \in DOMAIN rws : \A j \in DOMAIN rws : j <= i] >>

\* a caller of storage.fetch_last_entry
storage_fetch_last_entry_called ==
    /\ variant = "storage"
    /\ \E r \in fetch_last_entry(rows) :
          report' = Queried("storage.fetch_last_entry", NoText, Value(r))
    /\ last' = Did("fetch_last_entry", NoForm, NoEntry, "returned", None, NoEntry)
    /\ UNCHANGED <<variant, rows, seq, clock, form_date, edit_id, table, calc>>

\* a caller of DatabaseManager.latest_entry
DatabaseManager_latest_entry_called ==
    /\ variant = "DatabaseManager"
    /\ \E r \in DatabaseManager_latest_entry(rows) :
          report' = Queried("DatabaseManager.latest_entry", NoText, Value(r))
    /\ last' = Did("latest_entry", NoForm, NoEntry, "returned", None, NoEntry)
    /\ UNCHANGED <<variant, rows, seq, clock, form_date, edit_id, table, calc>>

\* a caller of LogDatabase.get_last_entry
LogDatabase_get_last_entry_called ==
    /\ variant = "LogDatabase"
    /\ report' = Queried("LogDatabase.get_last_entry", NoText,
                         Value(LogDatabase_get_last_entry(rows)))
    /\ last' = Did("get_last_entry", NoForm, NoEntry, "returned", None, NoEntry)
    /\ UNCHANGED <<variant, rows, seq, clock, form_date, edit_id, table, calc>>

-----------------------------------------------------------------------------
(* Reports and exports: src/src/storage.py, src/database.py,                 *)
(* src/vermessung_log/database.py and src/vermessung_log/exporter.py         *)

MaxReportRows == 2       \* rows in the store a report is made of

\* the text of a date, f"{year:04d}-{month:02d}-{day:02d}" / date.isoformat():
\* held as the number yyyymmdd
IsoDate(year, month, day) == year * 10000 + month * 100 + day

\* substr(date, 1, 7): the text YYYY-MM, held as the number yyyymm
IsoMonth(date) == date \div 100

\* the dates of stored rows: the last of November, the first and the last of
\* December, the first of January
ReportDates ==
    {IsoDate(2024, 11, 30), IsoDate(2024, 12, 1), IsoDate(2024, 12, 31),
     IsoDate(2025, 1, 1)}

\* the months the month_edit is set to
ReportMonths == {<<2024, 11>>, <<2024, 12>>, <<2025, 1>>}

ReportSites == {"A", "B"}
ReportKsts == {"100", "200"}

\* day_fraction of stored rows, in thousandths: 0.125 (the text "0.125" typed
\* into LogApp's day_fraction_combo) and 0.5
ReportFractions == {125, 500}

\* the rows a store can hold
ReportRows ==
    { [NoEntry EXCEPT !.date = d, !.employee = "eva", !.site_name = site, !.kst = kst,
                      !.activity = "Scan", !.day_fraction = fraction, !.result = "ok"] :
        d \in ReportDates, site \in ReportSites, kst \in ReportKsts,
        fraction \in ReportFractions }

\* the stores reports are made of: ids 1..n in the order of insertion
ReportStores ==
    UNION { { [i \in 1..n |-> [content[i] EXCEPT !.id = i]] :
                content \in [1..n -> ReportRows] } : n \in 0..MaxReportRows }

\* the place of a text among the site names and cost centres used, in the
\* order in which SQLite's BINARY collation and Python compare them; a column
\* without a value comes first
TextRank(text) ==
    CASE text = NoText -> 0
      [] text = ""     -> 1
      [] text = "100"  -> 2
      [] text = "200"  -> 3
      [] text = "A"    -> 4
      [] text = "B"    -> 5
      [] text = "Scan" -> 6
      [] text = "eva"  -> 7

\* a tuple of numbers comes before another: lexicographic order
TupleBefore(a, b) ==
    \E k \in DOMAIN a : /\ a[k] < b[k]
                         /\ \A m \in 1..(k - 1) : a[m] = b[m]

\* a set in the order of the sort keys key[x] of its elements
SortedBy(set, key) ==
    InOrder(set, {p \in set \X set : TupleBefore(key[p[1]], key[p[2]])})

\* SUM(day_fraction) over the rows of a set of ids
RECURSIVE SumFractions(_, _)
SumFractions(rws, ids) ==
    IF ids = {} THEN 0
    ELSE LET i == CHOOSE j \in ids : TRUE
         IN  rws[i].day_fraction + SumFractions(rws, ids \ {i})

\* f"{total:.2f}": thousandths to hundredths, a tie going to the even digit
\* (the fractions used are eighths, which binary floats hold exactly)
Format2(total) == RoundHalfEven(total, 10)

\* the first day of the month after (year, month)
FirstOfNextMonth(year, month) ==
    IF month = 12 THEN IsoDate(year + 1, 1, 1) ELSE IsoDate(year, month + 1, 1)

\* a range query that takes the end date in: WHERE date >= ? AND date <= ?
IdsInDateRange_through_end_date(rws, start_date, end_date) ==
    {i \in DOMAIN rws : rws[i].date >= start_date /\ rws[i].date <= end_date}

\* WHERE date >= ? AND date < ? with the first of the month and the first of
\* the next: the ids of the rows selected
IdsInDateRange(rws, start_date, end_date) ==
    {i \in DOMAIN rws : rws[i].date >= start_date /\ rws[i].date < end_date}

\* a row of a summary: MonthlySummaryRow, or the tuple of a totals query with
\* NULL for the date; a column the query does not select is NoText
SummaryRow(date, site_name, kst, total) ==
    [date |-> date, site_name |-> site_name, kst |-> kst, total |-> total]

\* GROUP BY date, site_name, kst over the rows of ids, in the order of the
\* group key (ORDER BY date, site_name; groups equal in both in kst order)
GroupByDateSiteKst(rws, ids) ==
    LET keys == {<<rws[i].date, rws[i].site_name, rws[i].kst>> : i \in ids}
        key == [k \in keys |-> <<k[1], TextRank(k[2]), TextRank(k[3])>>]
        order == SortedBy(keys, key)
    IN  [n \in 1..Cardinality(keys) |->
            SummaryRow(order[n][1], order[n][2], order[n][3],
                       SumFractions(rws, {i \in ids :
                           <<rws[i].date, rws[i].site_name, rws[i].kst>> = order[n]}))]

\* GROUP BY site_name, kst over the rows of ids (ORDER BY site_name; groups of
\* one site in kst order)
GroupBySiteKst(rws, ids) ==
    LET keys == {<<rws[i].site_name, rws[i].kst>> : i \in ids}
        key == [k \in keys |-> <<TextRank(k[1]), TextRank(k[2])>>]
        order == SortedBy(keys, key)
    IN  [n \in 1..Cardinality(keys) |->
            SummaryRow(NULL, order[n][1], order[n][2],
                       SumFractions(rws, {i \in ids :
                           <<rws[i].site_name, rws[i].kst>> = order[n]}))]

\* storage.monthly_summary
monthly_summary(rws, year, month) ==
    GroupByDateSiteKst(rws, IdsInDateRange(rws, IsoDate(year, month, 1),
                                           FirstOfNextMonth(year, month)))

\* storage.monthly_totals_by_site
monthly_totals_by_site(rws, year, month) ==
    GroupBySiteKst(rws, IdsInDateRange(rws, IsoDate(year, month, 1),
                                       FirstOfNextMonth(year, month)))

\* DatabaseManager.entries_for_month: ORDER BY date, site_name, kst; rows equal
\* in all three in key order
DatabaseManager_entries_for_month(rws, year, month) ==
    LET ids == IdsInDateRange(rws, IsoDate(year, month, 1), FirstOfNextMonth(year, month))
        key == [i \in ids |-> <<rws[i].date, TextRank(rws[i].site_name),
                                TextRank(rws[i].kst), i>>]
        order == SortedBy(ids, key)
    IN  [n \in 1..Cardinality(ids) |-> rws[order[n]]]

\* LogDatabase.get_monthly_summary: WHERE substr(date, 1, 7) = ? GROUP BY
\* date, kst ORDER BY date, kst; site_name is not selected
LogDatabase_get_monthly_summary(rws, year, month) ==
    LET ids == {i \in DOMAIN rws : IsoMonth(rws[i].date) = year * 100 + month}
        keys == {<<rws[i].date, rws[i].kst>> : i \in ids}
        key == [k \in keys |-> <<k[1], TextRank(k[2])>>]
        order == SortedBy(keys, key)
    IN  [n \in 1..Cardinality(keys) |->
            SummaryRow(order[n][1], NoText, order[n][2],
                       SumFractions(rws, {i \in ids :
                           <<rws[i].date, rws[i].kst>> = order[n]}))]

\* a section of an exported file: a block of rows of a CSV file, or a sheet
Section(kind, lines) == [kind |-> kind, lines |-> lines]

\* the rows of a summary with the total written as f"{total:.2f}"
Formatted(summary) ==
    [n \in DOMAIN summary |-> [summary[n] EXCEPT !.total = Format2(summary[n].total)]]

\* storage.export_month_to_csv: the blocks of the file it writes
export_month_to_csv(rws, year, month) ==
    << Section("daily", Formatted(monthly_summary(rws, year, month))),
       Section("totals", Formatted(monthly_totals_by_site(rws, year, month))) >>

\* storage.export_month_to_excel: the sheets of the workbook it saves; with no
\* openpyxl it returns without one
export_month_to_excel(rws, year, month, openpyxl) ==
    IF ~openpyxl THEN << >>
    ELSE << Section("daily", monthly_summary(rws, year, month)),
            Section("totals", monthly_totals_by_site(rws, year, month)) >>

\* a detail row of the CSV file: the seven columns written of an entry
DetailLine(entry) ==
    [date |-> entry.date, site_name |-> entry.site_name, kst |-> entry.kst,
     employee |-> entry.employee, activity |-> entry.activity,
     day_fraction |-> entry.day_fraction, result |-> entry.result]

\* the ids 1..Len(entries) of a list of entries taken as a table
AsTable(entries) == [n \in DOMAIN entries |-> [entries[n] EXCEPT !.id = n]]

\* MonthExporter.export_csv: the blocks of the file it writes; the two dicts
\* are written in the order of sorted(items())
MonthExporter_export_csv(entries) ==
    LET t == AsTable(entries) IN
    << Section("detail", [n \in DOMAIN entries |-> DetailLine(entries[n])]),
       Section("daily", Formatted(GroupByDateSiteKst(t, DOMAIN t))),
       Section("totals", Formatted(GroupBySiteKst(t, DOMAIN t))) >>

\* MonthExporter.export_excel: RuntimeError with no pandas; else the sheets
\* Einzelbuchungen, Tagessummen and Monatssummen, made of a single empty row
\* dated today when there are no entries
MonthExporter_export_excel(entries, pd, today) ==
    IF ~pd THEN Raised("RuntimeError")
    ELSE LET df == IF entries # << >> THEN entries
                   ELSE << [NoEntry EXCEPT !.date = today, !.day_fraction = 0] >>
             t == AsTable(df)
         IN  Value(<< Section("detail", df),
                      Section("daily", GroupByDateSiteKst(t, DOMAIN t)),
                      Section("totals", GroupBySiteKst(t, DOMAIN t)) >>)

\* a caller of storage.monthly_summary
storage_monthly_summary_called ==
    /\ variant = "report"
    /\ \E ym \in ReportMonths :
          report' = Reported("storage.monthly_summary", ym[1], ym[2], NULL, "returned",
                             monthly_summary(rows, ym[1], ym[2]), << >>, "none")
    /\ UNCHANGED <<variant, rows, seq, clock, form_date, edit_id, table, last, calc>>

\* a caller of storage.monthly_totals_by_site
storage_monthly_totals_by_site_called ==
    /\ variant = "report"
    /\ \E ym \in ReportMonths :
          report' = Reported("storage.monthly_totals_by_site", ym[1], ym[2], NULL,
                             "returned", monthly_totals_by_site(rows, ym[1], ym[2]),
                             << >>, "none")
    /\ UNCHANGED <<variant, rows, seq, clock, form_date, edit_id, table, last, calc>>

\* a caller of DatabaseManager.entries_for_month
DatabaseManager_entries_for_month_called ==
    /\ variant = "report"
    /\ \E ym \in ReportMonths :
          report' = Reported("DatabaseManager.entries_for_month", ym[1], ym[2], NULL,
                             "returned", DatabaseManager_entries_for_month(rows, ym[1], ym[2]),
                             << >>, "none")
    /\ UNCHANGED <<variant, rows, seq, clock, form_date, edit_id, table, last, calc>>

\* a caller of LogDatabase.get_monthly_summary
LogDatabase_get_monthly_summary_called ==
    /\ variant = "report"
    /\ \E ym \in ReportMonths :
          report' = Reported("LogDatabase.get_monthly_summary", ym[1], ym[2], NULL,
                             "returned", LogDatabase_get_monthly_summary(rows, ym[1], ym[2]),
                             << >>, "none")
    /\ UNCHANGED <<variant, rows, seq, clock, form_date, edit_id, table, last, calc>>

\* LogApp.export_csv
LogApp_export_csv ==
    /\ variant = "report"
    /\ \E ym \in ReportMonths :
          report' = Reported("LogApp.export_csv", ym[1], ym[2], NULL, "returned", << >>,
                             export_month_to_csv(rows, ym[1], ym[2]), "saved")
    /\ UNCHANGED <<variant, rows, seq, clock, form_date, edit_id, table, last, calc>>

\* LogApp.export_excel: the information box follows the call whatever it did
LogApp_export_excel ==
    /\ variant = "report"
    /\ \E ym \in ReportMonths, openpyxl \in BOOLEAN :
          report' = Reported("LogApp.export_excel", ym[1], ym[2], openpyxl, "returned",
                             << >>, export_month_to_excel(rows, ym[1], ym[2], openpyxl),
                             "saved")
    /\ UNCHANGED <<variant, rows, seq, clock, form_date, edit_id, table, last, calc>>

\* MainWindow.export_csv of vermessung_log/app.py
VL_export_csv ==
    /\ variant = "report"
    /\ \E ym \in ReportMonths :
          LET entries == DatabaseManager_entries_for_month(rows, ym[1], ym[2])
          IN  report' = Reported("VL.export_csv", ym[1], ym[2], NULL, "returned", entries,
                                 MonthExporter_export_csv(entries), "saved")
    /\ UNCHANGED <<variant, rows, seq, clock, form_date, edit_id, table, last, calc>>

\* MainWindow.export_excel of vermessung_log/app.py: outcome is how
\* MonthExporter.export_excel ended; an exception becomes a warning box
VL_export_excel ==
    /\ variant = "report"
    /\ \E ym \in ReportMonths, pd \in BOOLEAN, today \in ReportDates :
          LET entries == DatabaseManager_entries_for_month(rows, ym[1], ym[2])
              r == MonthExporter_export_excel(entries, pd, today)
          IN  report' =
                IF r.kind = "value"
                THEN Reported("VL.export_excel", ym[1], ym[2], pd, "returned", entries,
                              r.value, "saved")
                ELSE Reported("VL.export_excel", ym[1], ym[2], pd, r.kind, entries,
                              << >>, "failed")
    /\ UNCHANGED <<variant, rows, seq, clock, form_date, edit_id, table, last, calc>>

-----------------------------------------------------------------------------
(* Queries of the values of a field: src/vermessung_log/database.py,         *)
(* src/src/storage.py and src/database.py                                    *)

\* the fields a caller asks for: the four of the completers, and notes
QueryFields == {"site_name", "kst", "activity", "employee", "notes"}

\* SELECT DISTINCT field ... WHERE field IS NOT NULL AND field != '': the
\* values selected (field != '' is not true of NULL either)
DistinctNonEmpty(rws, field) == {rws[i][field] : i \in DOMAIN rws} \ {"", NoText}

\* the orders in which a SELECT without ORDER BY can return a set of values:
\* SQL leaves the order open
Orderings(values) ==
    {s \in [1..Cardinality(values) -> values] :
        \A n, m \in 1..Cardinality(values) : s[n] = s[m] => n = m}

\* ORDER BY field on a set of values
Ascending(values) == SortedBy(values, [v \in values |-> <<TextRank(v)>>])

\* DatabaseManager.distinct_values: the lists it can return
DatabaseManager_distinct_values(rws, field) ==
    IF field \notin {"site_name", "kst", "activity", "employee"}
    THEN {Value(<< >>)}
    ELSE {Value(s) : s \in Orderings(DistinctNonEmpty(rws, field))}

\* storage.fetch_distinct_sites_and_ksts: the pairs of lists it can return
fetch_distinct_sites_and_ksts(rws) ==
    {Value(<<sites, ksts>>) : sites \in Orderings(DistinctNonEmpty(rws, "site_name")),
                              ksts \in Orderings(DistinctNonEmpty(rws, "kst"))}

\* LogDatabase.get_distinct_values
LogDatabase_get_distinct_values(rws, column) ==
    IF column \notin {"site_name", "kst", "activity"}
    THEN Raised("ValueError")
    ELSE Value(Ascending(DistinctNonEmpty(rws, column)))

\* a caller of DatabaseManager.distinct_values
DatabaseManager_distinct_values_called ==
    /\ variant = "report"
    /\ \E field \in QueryFields :
          \E r \in DatabaseManager_distinct_values(rows, field) :
              report' = Queried("DatabaseManager.distinct_values", field, r)
    /\ UNCHANGED <<variant, rows, seq, clock, form_date, edit_id, table, last, calc>>

\* a caller of storage.fetch_distinct_sites_and_ksts
storage_fetch_distinct_sites_and_ksts_called ==
    /\ variant = "report"
    /\ \E r \in fetch_distinct_sites_and_ksts(rows) :
          report' = Queried("storage.fetch_distinct_sites_and_ksts", NoText, r)
    /\ UNCHANGED <<variant, rows, seq, clock, form_date, edit_id, table, last, calc>>

\* a caller of LogDatabase.get_distinct_values
LogDatabase_get_distinct_values_called ==
    /\ variant = "report"
    /\ \E column \in QueryFields :
          report' = Queried("LogDatabase.get_distinct_values", column,
                            LogDatabase_get_distinct_values(rows, column))
    /\ UNCHANGED <<variant, rows, seq, clock, form_date, edit_id, table, last, calc>>

-----------------------------------------------------------------------------
(* The log with corrections: src/db.py with src/main.py *)

\* config.EMPLOYEES, ACTIVITIES ("Aufmass" is written with a sharp s in the
\* source) and TIME_SHARES (round(i / 10, 1) for i in 1..10), in tenths
EMPLOYEES == {"Anna", "Benedikt", "Carla", "Dieter", "Elena"}

ACTIVITIES == {"freie", "Aufmass", "Absteckung", "Absteckdaten", "Bestandsplan", "Sonstiges"}

TIME_SHARES == 1..10

\* what the user left in the widgets of the form: the line edits hold any
\* text, the combo boxes one of their items, the date edit a day, the spin box
\* a number from 0
SiteInputs == {"", " ", "A"}
ResultInputs == {"ok", "Aufmassplan"}
ActivityInputs == {"freie", "Sonstiges"}
TimeShareInputs == {1, 10}
EmployeeInputs == {"Anna"}
CorrectsInputs == 0..MaxId

\* a form a save accepts
CompleteLogForm ==
    [site |-> "A", activity |-> "freie", result |-> "Aufmassplan", date |-> 1,
     time_share |-> 1, employee |-> "Anna", is_correction |-> 0, corrects |-> 0,
     note |-> ""]

ActivityForms ==
    { [CompleteLogForm EXCEPT !.activity = a, !.time_share = t, !.employee = e,
                              !.is_correction = c, !.corrects = k] :
         a \in ActivityInputs, t \in TimeShareInputs, e \in EmployeeInputs,
         c \in {0, 1}, k \in CorrectsInputs }
    \cup { [CompleteLogForm EXCEPT !.site = site] : site \in SiteInputs }
    \cup { [CompleteLogForm EXCEPT !.result = result] : result \in ResultInputs }

\* str.strip() on the texts of the line edits
Strip(text) == IF text = " " THEN "" ELSE text

\* len() of the result texts
TextLength(text) ==
    CASE text = "ok"          -> 2
      [] text = "Aufmassplan" -> 11
      [] OTHER                -> 0

\* validate_entry: the exception it raises, None when it returns
validate_entry(activity, time_share) ==
    IF activity \notin ACTIVITIES THEN Raised("ValueError")
    ELSE IF time_share \notin TIME_SHARES THEN Raised("ValueError")
    ELSE Value(NULL)

\* ActivityLogApp._validate_inputs: the message, "" for None
ActivityLogApp_validate_inputs(form) ==
    IF Strip(form.site) = "" THEN "Baustelle darf nicht leer sein."
    ELSE IF TextLength(Strip(form.result)) < 5
    THEN "Ergebnis muss mindestens 5 Zeichen enthalten."
    ELSE IF Strip(form.employee) = "" THEN "Bitte Mitarbeiter auswaehlen."
    ELSE ""

\* Database.add_entry: the row the INSERT writes; the key is AUTOINCREMENT
Database_add_entry(sq, entry_date, employee, site, activity, result_text, time_share, is_correction, corrects_id, note, now) ==
    [id |-> sq + 1, date |-> entry_date, employee |-> employee, site |-> site,
     activity |-> activity, result |-> result_text, time_share |-> time_share,
     timestamp |-> IsoSeconds(now),
     is_correction |-> IF is_correction THEN 1 ELSE 0,
     corrects_id |-> corrects_id, note |-> note]

\* a faulty variant of Database.add_entry as the store would be after it: the
\* row a correction names is replaced by the correction
Database_add_entry_replacing(rws, row) ==
    IF row.corrects_id \in DOMAIN rws
    THEN [i \in DOMAIN rws |-> IF i = row.corrects_id THEN row ELSE rws[i]]
    ELSE WithRow(rws, row)

\* the store after the INSERT of Database.add_entry
Database_add_entry_stored(rws, row) == WithRow(rws, row)

\* Database.fetch_recent_entries with every date in the month and year asked
\* for: the lists ORDER BY timestamp DESC LIMIT ? can return (rows of one
\* timestamp come in any order)
Database_fetch_recent_entries(rws, limit) ==
    {[k \in 1..(IF Cardinality(DOMAIN rws) < limit
                THEN Cardinality(DOMAIN rws) ELSE limit) |-> rws[s[k]]] :
        s \in {o \in Orderings(DOMAIN rws) :
                 \A n, m \in DOMAIN o :
                    n < m => rws[o[n]].timestamp >= rws[o[m]].timestamp}}

\* Database.distinct_sites: SELECT DISTINCT site ... ORDER BY site ASC
Database_distinct_sites(rws) == Ascending({rws[i].site : i \in DOMAIN rws})

\* ActivityLogApp.refresh_table and update_autocomplete on a store: the
\* table widget and the completer of the site field
ActivityLogApp_refresh(rws) ==
    /\ table' \in Database_fetch_recent_entries(rws, 200)
    /\ report' = [report EXCEPT !.fn = "update_autocomplete",
                                !.result = Database_distinct_sites(rws)]

\* ActivityLogApp.save_entry
ActivityLogApp_save_entry ==
    /\ variant = "ActivityLogApp"
    /\ \E form \in ActivityForms, now \in clock..MaxClock :
         LET error == ActivityLogApp_validate_inputs(form)
             valid == validate_entry(form.activity, form.time_share)
         IN
         /\ clock' = now
         /\ IF error # ""
            THEN /\ last' = Did("save", form, NoEntry, "rejected", None, NoEntry)
                 /\ UNCHANGED <<rows, seq, table, report>>
            ELSE IF valid.kind # "value"
            THEN /\ last' = Did("save", form, NoEntry, valid.kind, None, NoEntry)
                 /\ UNCHANGED <<rows, seq, table, report>>
            ELSE /\ seq < MaxId
                 /\ LET row == Database_add_entry(seq, form.date, form.employee,
                                   Strip(form.site), form.activity, Strip(form.result),
                                   form.time_share, form.is_correction = 1,
                                   IF form.corrects # 0 THEN form.corrects ELSE NULL,
                                   Strip(form.note), now)
                        after == Database_add_entry_stored(rows, row)
                    IN  /\ rows' = after
                        /\ seq' = row.id
                        /\ last' = Did("save", form, row, "inserted", row.id,
                                       RowOf(rows, form.corrects))
                        /\ ActivityLogApp_refresh(after)
    /\ UNCHANGED <<variant, form_date, edit_id, calc>>

\* the month or year filter changed: ActivityLogApp.refresh_table
ActivityLogApp_refresh_table ==
    /\ variant = "ActivityLogApp"
    /\ table' \in Database_fetch_recent_entries(rows, 200)
    /\ last' = Did("refresh_table", NoForm, NoEntry, "returned", None, NoEntry)
    /\ UNCHANGED <<variant, rows, seq, clock, form_date, edit_id, calc, report>>

\* ActivityLogApp.export_csv: Database.export_csv writes the rows of
\* fetch_recent_entries(limit=10000)
ActivityLogApp_export_csv ==
    /\ variant = "ActivityLogApp"
    /\ \E lines \in Database_fetch_recent_entries(rows, 10000) :
          report' = [report EXCEPT !.fn = "export_csv", !.file = lines]
    /\ last' = Did("export_csv", NoForm, NoEntry, "exported", None, NoEntry)
    /\ UNCHANGED <<variant, rows, seq, clock, form_date, edit_id, table, calc>>

-----------------------------------------------------------------------------
(* Specifications *)

NoOp == Did("none", NoForm, NoEntry, "none", None, NoEntry)

InitApp ==
    /\ variant \in {"LogApp", "VL", "MW", "storage", "DatabaseManager", "LogDatabase"}
    /\ rows = <<>>
    /\ seq = 0
    /\ clock = 0
    /\ form_date = 1
    /\ edit_id = None
    /\ table = <<>>
    /\ last = NoOp
    /\ calc = NoCall
    /\ report = NoReport

InitCalc ==
    /\ variant = "calc"
    /\ rows = <<>>
    /\ seq = 0
    /\ clock = 0
    /\ form_date = 1
    /\ edit_id = None
    /\ table = <<>>
    /\ last = NoOp
    /\ calc = NoCall
    /\ report = NoReport

Next ==
    \/ LogApp_save_entry
    \/ LogApp_edit_selected
    \/ LogApp_delete_selected
    \/ LogApp_duplicate_selected
    \/ LogApp_date_changed
    \/ VL_save_entry
    \/ VL_load_selected_entry
    \/ VL_delete_selected_entry
    \/ VL_duplicate_selected_entry
    \/ VL_date_changed
    \/ MW_save_entry
    \/ MW_load_selected_into_form
    \/ MW_delete_selected
    \/ MW_duplicate_selected
    \/ MW_date_changed
    \/ storage_insert_entry_called
    \/ storage_delete_entry_called
    \/ storage_duplicate_entry_called
    \/ DatabaseManager_insert_entry_called
    \/ DatabaseManager_delete_entry_called
    \/ LogDatabase_add_entry_called
    \/ LogDatabase_delete_entry_called
    \/ storage_update_entry_called
    \/ DatabaseManager_update_entry_called
    \/ LogDatabase_update_entry_called
    \/ storage_fetch_last_entry_called
    \/ DatabaseManager_latest_entry_called
    \/ LogDatabase_get_last_entry_called

NextCalc ==
    \/ CallIntervalFraction
    \/ Call_round_to_step
    \/ CallRoundingTwice

\* a store as it was filled, and the reports made of it
InitReport ==
    /\ variant = "report"
    /\ rows \in ReportStores
    /\ seq = Cardinality(DOMAIN rows)
    /\ clock = 0
    /\ form_date = 1
    /\ edit_id = None
    /\ table = <<>>
    /\ last = NoOp
    /\ calc = NoCall
    /\ report = NoReport

NextReport ==
    \/ storage_monthly_summary_called
    \/ storage_monthly_totals_by_site_called
    \/ DatabaseManager_entries_for_month_called
    \/ LogDatabase_get_monthly_summary_called
    \/ LogApp_export_csv
    \/ LogApp_export_excel
    \/ VL_export_csv
    \/ VL_export_excel
    \/ DatabaseManager_distinct_values_called
    \/ storage_fetch_distinct_sites_and_ksts_called
    \/ LogDatabase_get_distinct_values_called

Spec == InitApp /\ [][Next]_vars

SpecReport == InitReport /\ [][NextReport]_vars

SpecCalc == InitCalc /\ [][NextCalc]_vars

\* the window of src/main.py on an empty log
InitActivityLog ==
    /\ variant = "ActivityLogApp"
    /\ rows = <<>>
    /\ seq = 0
    /\ clock = 0
    /\ form_date = 1
    /\ edit_id = None
    /\ table = <<>>
    /\ last = NoOp
    /\ calc = NoCall
    /\ report = NoReport

NextActivityLog ==
    \/ ActivityLogApp_save_entry
    \/ ActivityLogApp_refresh_table
    \/ ActivityLogApp_export_csv

SpecActivityLog == InitActivityLog /\ [][NextActivityLog]_vars


-----------------------------------------------------------------------------
(* Properties of the fraction computation and of the stored entries *)

\* the last handler was a save of a complete form in interval mode
IntervalSave(did) ==
    /\ did.op = "save"
    /\ did.form.mode = "interval"
    /\ did.form.texts = CompleteTexts

\* the save wrote a row
Stored(did) == did.outcome \in {"inserted", "updated"}

\* C1: in LogApp an interval save with end > start, workday_hours > 0 and a
\* step in (0, 1] either is refused as out of range or hands the store a
\* fraction v with 0 < v <= 1.0; an interval shorter than half a step is not
\* accepted with the fraction 0.
C1_IntervalFractionInRangeOrRefused ==
    ( /\ variant = "LogApp"
      /\ IntervalSave(last)
      /\ last.form.end > last.form.start
      /\ last.form.workday_hours > 0
      /\ last.form.step \in 1..100 )
    => \/ last.outcome = "FractionOutOfRange"
       \/ /\ Stored(last)
          /\ last.entry.day_fraction > 0
          /\ last.entry.day_fraction <= 100

\* C2: whatever was saved, duplicated and deleted, every row of the store has
\* 0 < day_fraction <= 1.0.
C2_StoredFractionInRange ==
    \A i \in DOMAIN rows : rows[i].day_fraction > 0 /\ rows[i].day_fraction <= 100

\* the multiple of step nearest to duration_hours / workday_hours, a tie going up
NearestMultipleTiesUp(start, end, workday_hours, step) ==
    RoundHalfUp(QuotNum(start, end), QuotDen(workday_hours, step)) * step

\* C3: for one start, end, workday_hours and step, each of the three rounding
\* sites that returns a fraction returns the multiple of the step nearest to
\* duration_hours / workday_hours, a tie rounded up; so all three agree.
C3_NearestMultipleAtEverySite ==
    ( /\ calc.fn = "interval_fraction"
      /\ calc.end > calc.start
      /\ calc.workday_hours > 0
      /\ calc.step > 0 )
    => \A site \in {calc.utils, calc.vl, calc.mw} :
          site.kind = "value"
          => site.value = NearestMultipleTiesUp(calc.start, calc.end,
                                                calc.workday_hours, calc.step)

\* the fraction a save derives from the interval of its form, before any range
\* check: VL reads the times as HH:mm texts, LogApp as times of day
RoundedIntervalFraction(form) ==
    LET s == IF variant = "VL" THEN ParseHHMM(FormatHHMM(form.start)) ELSE form.start
        e == IF variant = "VL" THEN ParseHHMM(FormatHHMM(form.end)) ELSE form.end
    IN  IF e > s
        THEN RoundHalfEven(QuotNum(s, e), QuotDen(form.workday_hours, form.step))
                 * form.step
        ELSE NULL

\* C4: a save whose rounded interval fraction is greater than 1.0 ends with the
\* out-of-range error and writes nothing: no row is created, updated or
\* clamped to 1.0 (LogApp and VL).
C4_OutOfRangeRefusedStoreUnchanged ==
    [][ ( /\ variant \in {"LogApp", "VL"}
          /\ IntervalSave(last')
          /\ RoundedIntervalFraction(last'.form) > 100 )
        => /\ last'.outcome = "FractionOutOfRange"
           /\ last'.entry = NoEntry
           /\ rows' = rows
           /\ seq' = seq ]_vars

\* C4 happens: 08:00-16:30 with an 8 h workday and step 0.05 was refused while
\* a row was being edited
C4_Witness ==
    /\ variant = "LogApp"
    /\ IntervalSave(last)
    /\ last.form.start = T0800 /\ last.form.end = T1630
    /\ last.form.workday_hours = 800 /\ last.form.step = 5
    /\ last.outcome = "FractionOutOfRange"
    /\ edit_id \in DOMAIN rows

\* C5: with workday_hours <= 0 or step <= 0 the fraction computation fails with
\* a configuration error: calculate_day_fraction, the interval branch of
\* _collect_form_data and round_to_step return no value in that case.
C5_InvalidConfigurationRaised ==
    /\ ( /\ calc.fn = "interval_fraction"
         /\ calc.end > calc.start
         /\ (calc.workday_hours <= 0 \/ calc.step <= 0) )
       => /\ calc.utils.kind = "InvalidConfiguration"
          /\ calc.mw.kind = "InvalidConfiguration"
    /\ (calc.fn = "round_to_step" /\ calc.step <= 0)
       => calc.result.kind = "InvalidConfiguration"

\* C6: an interval save with end <= start ends with the invalid-time-range
\* error, no fraction computed and nothing handed to the store, which is left
\* as it was (all three variants).
C6_InvalidTimeRangeRefusedStoreUnchanged ==
    [][ (IntervalSave(last') /\ last'.form.end <= last'.form.start)
        => /\ last'.outcome = "InvalidTimeRange"
           /\ last'.entry = NoEntry
           /\ rows' = rows
           /\ seq' = seq ]_vars

\* C6 happens: a form with end = start was refused while a row was being edited
C6_Witness ==
    /\ IntervalSave(last)
    /\ last.form.end = last.form.start
    /\ last.outcome = "InvalidTimeRange"
    /\ edit_id \in DOMAIN rows

\* C7: in every row with times, the end_time text is later than the start_time text.
C7_PersistedEndAfterStart ==
    \A i \in DOMAIN rows :
        rows[i].start_time # NULL => rows[i].end_time > rows[i].start_time

\* C8: every row written has both times or neither, and an update that puts a
\* fraction-mode form over an interval row leaves the row with neither
\* (LogApp and VL).
C8_OneCaptureMode ==
    [][ (variant \in {"LogApp", "VL"})
        => ( /\ \A i \in DOMAIN rows' :
                   (rows'[i].start_time = NULL) <=> (rows'[i].end_time = NULL)
             /\ ( ( /\ last'.op = "save"
                    /\ last'.outcome = "updated"
                    /\ last'.form.mode = "fraction"
                    /\ last'.id \in DOMAIN rows )
                  => ( /\ rows'[last'.id].start_time = NULL
                       /\ rows'[last'.id].end_time = NULL ) ) )
      ]_vars

\* C8 happens: an interval row was updated from a form in fraction mode
C8_Witness ==
    /\ variant = "LogApp"
    /\ last.op = "save"
    /\ last.outcome = "updated"
    /\ last.form.mode = "fraction"
    /\ last.before.start_time # NULL
    /\ last.id \in DOMAIN rows
    /\ rows[last.id].start_time = NULL

\* the fields of an entry other than id, created_at and updated_at
EntryFields ==
    {"date", "employee", "site_name", "kst", "activity", "start_time", "end_time",
     "day_fraction", "duration_hours", "result", "notes"}

\* C9: the entry read back after an insert equals the entry handed to
\* insert_entry in every field but id, created_at and updated_at (LogApp and VL).
C9_InsertThenReadBack ==
    ( /\ variant \in {"LogApp", "VL"}
      /\ last.op = "save"
      /\ last.outcome = "inserted" )
    => \A k \in DOMAIN table :
          table[k].id = last.id
          => \A f \in EntryFields : table[k][f] = last.entry[f]

\* C10: an update of an existing row, made at a later instant than every write
\* before it, keeps the row's id and created_at, replaces the other fields and
\* sets updated_at to a value greater than the one it had, also when the row
\* was written earlier in the same clock second (VL).
C10_UpdateAdvancesUpdatedAt ==
    [][ ( /\ variant = "VL"
          /\ clock' > clock
          /\ last'.op = "save"
          /\ last'.outcome = "updated"
          /\ last'.id \in DOMAIN rows )
        => /\ last'.id \in DOMAIN rows'
           /\ rows'[last'.id].created_at = rows[last'.id].created_at
           /\ \A f \in EntryFields : rows'[last'.id][f] = last'.entry[f]
           /\ rows'[last'.id].updated_at > rows[last'.id].updated_at ]_vars

\* C11: a save that hands an entry to update_entry for an id the store does
\* not hold ends with a not-found error (LogApp and VL).
C11_UpdateOfMissingIdFails ==
    [][ ( /\ variant \in {"LogApp", "VL"}
          /\ last'.op = "save"
          /\ last'.entry # NoEntry
          /\ edit_id # None
          /\ edit_id \notin DOMAIN rows )
        => last'.outcome = "NotFoundError" ]_vars

\* C13: once an id has been assigned and its row deleted, get_entry of it
\* finds nothing, and no later insert or duplicate brings the id back: every
\* new row gets an id greater than all assigned before (LogApp and VL).
C13_DeletedIdStaysNotFound ==
    [][ (variant \in {"LogApp", "VL"})
        => ( /\ \A i \in 1..seq :
                   RowOf(rows, i) = NoEntry => RowOf(rows', i) = NoEntry
             /\ \A i \in DOMAIN rows' \ DOMAIN rows : i > seq /\ seq' = i
             /\ seq' >= seq
             /\ (last'.op = "delete" => RowOf(rows', last'.id) = NoEntry) )
      ]_vars

\* C13 happens: a row was inserted after the row of id 1 had been deleted
C13_Witness ==
    /\ variant = "VL"
    /\ last.op \in {"save", "duplicate"}
    /\ last.outcome = "inserted"
    /\ last.id = 2
    /\ RowOf(rows, 1) = NoEntry
    /\ RowOf(rows, 2) # NoEntry

\* the listing of a date holds exactly the rows of that date, once each
ListsDate(listing, rws, date) ==
    /\ \A k, l \in DOMAIN listing : listing[k].id = listing[l].id => k = l
    /\ {listing[k].id : k \in DOMAIN listing} = {i \in DOMAIN rws : rws[i].date = date}

\* an entry of a listing comes no later than another: interval entries before
\* fraction entries, interval entries by start_time, ties in creation order
ListedBefore(a, b) ==
    \/ a.start_time # NULL /\ b.start_time = NULL
    \/ a.start_time # NULL /\ b.start_time # NULL /\ a.start_time < b.start_time
    \/ (a.start_time = b.start_time) /\ a.id < b.id

\* C15: the listing shown for the date holds all rows of the date, interval
\* entries first in ascending start_time, then the fraction entries, entries
\* that tie in the order they were created (LogApp and VL).
C15_ListingOrder ==
    (variant \in {"LogApp", "VL"})
    => /\ ListsDate(table, rows, form_date)
       /\ \A k, l \in DOMAIN table : k < l => ListedBefore(table[k], table[l])

\* C12: delete_entry called with an id the store does not hold ends with a
\* not-found error (storage, DatabaseManager and LogDatabase).
C12_DeleteOfMissingIdFails ==
    [][ (last'.op = "delete_entry" /\ last'.id \notin DOMAIN rows)
        => last'.outcome = "NotFoundError" ]_vars

\* a step that duplicated a row: by a window, or by a call of duplicate_entry
Duplicated(did) ==
    /\ did.op \in {"duplicate", "duplicate_entry"}
    /\ did.outcome = "inserted"

\* C14: a duplicate adds exactly one row, with an id not assigned before and
\* both timestamps set to the time of the call; its other fields are those of
\* the row copied, except date, which is the date the caller gave, or that of
\* the row copied when the caller gave none; every row there was stays as it
\* was (LogApp, VL and callers of storage.duplicate_entry).
C14_DuplicateCopiesAllButDate ==
    [][ (variant \in {"LogApp", "VL", "storage"} /\ Duplicated(last'))
        => LET original == last'.before
               new == last'.id
               stamp == IF variant = "VL" THEN IsoSeconds(clock') ELSE clock'
           IN  /\ original.id \in DOMAIN rows /\ rows[original.id] = original
               /\ new > seq /\ new \notin DOMAIN rows
               /\ DOMAIN rows' = DOMAIN rows \cup {new}
               /\ \A i \in DOMAIN rows : rows'[i] = rows[i]
               /\ \A f \in EntryFields \ {"date"} : rows'[new][f] = original[f]
               /\ (variant # "storage" => last'.entry.date = form_date)
               /\ rows'[new].date = IF last'.entry.date # NULL
                                    THEN last'.entry.date ELSE original.date
               /\ rows'[new].created_at = stamp
               /\ rows'[new].updated_at = stamp ]_vars

\* C14 happens: duplicate_entry was called without a date, later than the row
\* it copied was written
C14_Witness ==
    /\ variant = "storage"
    /\ Duplicated(last)
    /\ last.entry.date = NULL
    /\ last.before.date = 2
    /\ last.before.created_at < clock
    /\ RowOf(rows, last.id).date = 2

-----------------------------------------------------------------------------
(* Properties of the reports and exports *)

\* the lines of the section of a kind in a file, << >> when it has none
SectionOf(file, kind) ==
    IF \E k \in DOMAIN file : file[k].kind = kind
    THEN file[CHOOSE k \in DOMAIN file : file[k].kind = kind].lines
    ELSE << >>

\* the sum of the totals of the lines numbered ns
RECURSIVE SumTotals(_, _)
SumTotals(lines, ns) ==
    IF ns = {} THEN 0
    ELSE LET n == CHOOSE m \in ns : TRUE
         IN  lines[n].total + SumTotals(lines, ns \ {n})

\* C16: in every exported file the monthly total written for a (site_name,
\* kst) pair equals the sum of the daily summary lines written for the same
\* pair, on the values as the file holds them (texts of two decimals in the
\* CSV files, numbers in the workbooks).
C16_ExportedTotalsReconcile ==
    LET daily == SectionOf(report.file, "daily")
        totals == SectionOf(report.file, "totals")
    IN  \A t \in DOMAIN totals :
            totals[t].total =
                SumTotals(daily, {n \in DOMAIN daily :
                                    /\ daily[n].site_name = totals[t].site_name
                                    /\ daily[n].kst = totals[t].kst})

\* the ids of the stored entries of the month a report was made for
MonthIds == {i \in DOMAIN rows : IsoMonth(rows[i].date) = report.year * 100 + report.month}

\* the daily summary a report holds: the rows a summary query returned, or the
\* daily block of a CSV file
DailySummary ==
    IF report.file # << >> THEN SectionOf(report.file, "daily") ELSE report.result

\* C17: the daily summary of a month has one row for each distinct (date,
\* site_name, kst) among the month's entries and no other; the value of a row
\* is the sum of day_fraction over the entries of one such key (written with
\* two decimals in a CSV file), so entries that differ only in site_name are
\* in different rows; the rows ascend in (date, site_name).  A query that does
\* not select site_name is held to the rest.
C17_DailySummaryPerDateSiteKst ==
    (report.fn \in {"storage.monthly_summary", "LogDatabase.get_monthly_summary",
                    "LogApp.export_csv", "VL.export_csv"}) =>
        LET keys == {<<rows[i].date, rows[i].site_name, rows[i].kst>> : i \in MonthIds}
            sum(key) == SumFractions(rows, {i \in MonthIds :
                            <<rows[i].date, rows[i].site_name, rows[i].kst>> = key})
            written(key) == IF report.file # << >> THEN Format2(sum(key)) ELSE sum(key)
            of(key, row) == /\ row.date = key[1]
                            /\ row.site_name \in {key[2], NoText}
                            /\ row.kst = key[3]
        IN  /\ Len(DailySummary) = Cardinality(keys)
            /\ \A key \in keys : \E n \in DOMAIN DailySummary :
                   /\ of(key, DailySummary[n])
                   /\ DailySummary[n].total = written(key)
            /\ \A n, m \in DOMAIN DailySummary :
                   n < m => \/ DailySummary[n].date < DailySummary[m].date
                            \/ /\ DailySummary[n].date = DailySummary[m].date
                               /\ TextRank(DailySummary[n].site_name)
                                      <= TextRank(DailySummary[m].site_name)

\* C18: a month query returns the stored entries dated in the month asked
\* for, each once and as stored, and nothing else: entries_for_month lists
\* exactly them, and monthly_summary summarises exactly them (its keys are
\* theirs and its totals add up to the sum of their day fractions); so for
\* December as for the other months.
C18_MonthQueryHalfOpenRange ==
    /\ (report.fn = "DatabaseManager.entries_for_month") =>
           /\ Len(report.result) = Cardinality(MonthIds)
           /\ {report.result[n].id : n \in DOMAIN report.result} = MonthIds
           /\ \A n \in DOMAIN report.result :
                  report.result[n] = rows[report.result[n].id]
    /\ (report.fn = "storage.monthly_summary") =>
           /\ {<<report.result[n].date, report.result[n].site_name, report.result[n].kst>> :
                  n \in DOMAIN report.result}
                = {<<rows[i].date, rows[i].site_name, rows[i].kst>> : i \in MonthIds}
           /\ SumTotals(report.result, DOMAIN report.result) = SumFractions(rows, MonthIds)

\* December was asked for of a store with an entry of 31 December and one of
\* 1 January, and the query returned one entry
C18_Witness ==
    /\ report.fn = "DatabaseManager.entries_for_month"
    /\ report.year = 2024 /\ report.month = 12
    /\ \E i, j \in DOMAIN rows : /\ rows[i].date = IsoDate(2024, 12, 31)
                                  /\ rows[j].date = IsoDate(2025, 1, 1)
    /\ Len(report.result) = 1

\* C19: an exported CSV report has three sections in this order: the detail
\* rows (date, site, kst, employee, activity, fraction, result), the daily
\* summary, the monthly totals; and the detail rows are the entries of the
\* month, each once.
C19_ThreeSectionsInOrder ==
    (report.fn \in {"LogApp.export_csv", "VL.export_csv"}) =>
        /\ [k \in DOMAIN report.file |-> report.file[k].kind] = <<"detail", "daily", "totals">>
        /\ LET detail == SectionOf(report.file, "detail")
           IN  /\ Len(detail) = Cardinality(MonthIds)
               /\ \E order \in [DOMAIN detail -> MonthIds] :
                      /\ \A n, m \in DOMAIN detail : order[n] = order[m] => n = m
                      /\ \A n \in DOMAIN detail : detail[n] = DetailLine(rows[order[n]])

\* C20: when the spreadsheet library cannot be imported, the spreadsheet
\* export ends in an error where it was called (it does not return normally
\* with no file written) and the window does not tell the user that the file
\* was saved.
C20_NoEngineNoSavedReport ==
    (/\ report.fn \in {"LogApp.export_excel", "VL.export_excel"}
     /\ report.engine = FALSE) =>
        /\ report.outcome # "returned"
        /\ report.message # "saved"

-----------------------------------------------------------------------------
(* Properties of the forms, the queries and the handlers *)

\* the fields a save requires
RequiredFields == {"employee", "site_name", "kst", "activity", "result"}

\* C21: a save of a form in which one of employee, site_name, kst, activity
\* and result is empty ends with the validation error and writes nothing: no
\* entry is built with a default in place of the missing field, and the store
\* is as it was.
C21_MissingRequiredFieldRejected ==
    [][ ( /\ variant \in {"LogApp", "VL", "MW"}
          /\ last'.op = "save"
          /\ \E field \in RequiredFields : last'.form.texts[field] = "" )
        => /\ last'.outcome = "ValidationError"
           /\ last'.entry = NoEntry
           /\ rows' = rows
           /\ seq' = seq ]_vars

\* a save of a complete form in fraction mode
FractionSave(did) ==
    /\ did.op = "save"
    /\ did.form.mode = "fraction"
    /\ did.form.texts = CompleteTexts

\* the day fraction a form supplies, as the window reads the text
SuppliedFraction(form) ==
    IF variant = "LogApp" THEN ParseFloat(ReplaceComma(form.fraction_text))
    ELSE ParseFloat(form.fraction_text)

\* C22: a fraction-mode save that supplies a number v writes a row only if
\* 0 < v <= 1.0, and the row then holds v itself, not v rounded to the step;
\* with v <= 0 or v > 1.0 the save is refused and the store is as it was
\* (LogApp and VL).
C22_FractionModeRangeAndExact ==
    [][ ( /\ variant \in {"LogApp", "VL"}
          /\ FractionSave(last')
          /\ SuppliedFraction(last'.form).kind = "value" )
        => LET v == SuppliedFraction(last'.form).value IN
           IF v > 0 /\ v <= 100
           THEN Stored(last') => /\ last'.entry.day_fraction = v
                                 /\ rows'[last'.id].day_fraction = v
           ELSE /\ ~Stored(last')
                /\ last'.entry = NoEntry
                /\ rows' = rows
                /\ seq' = seq ]_vars

\* the list has each non-empty value of the field among the stored entries
\* once, nothing else, in ascending lexical order
DistinctAscending(list, field) ==
    /\ {list[n] : n \in DOMAIN list} = {rows[i][field] : i \in DOMAIN rows} \ {"", NoText}
    /\ \A n, m \in DOMAIN list : n < m => TextRank(list[n]) < TextRank(list[m])

\* C23: a query of the values of one of the fields site_name, kst, activity,
\* employee that returns a list returns each non-empty stored value of the
\* field once, no empty or missing value, in ascending lexical order.
C23_DistinctValuesAscending ==
    /\ ( /\ report.fn \in {"DatabaseManager.distinct_values",
                            "LogDatabase.get_distinct_values"}
         /\ report.arg \in {"site_name", "kst", "activity", "employee"}
         /\ report.outcome = "returned" )
       => DistinctAscending(report.result, report.arg)
    /\ (report.fn = "storage.fetch_distinct_sites_and_ksts")
       => /\ DistinctAscending(report.result[1], "site_name")
          /\ DistinctAscending(report.result[2], "kst")

\* C24: a query of the values of a field outside site_name, kst, activity,
\* employee ends with an error, not with an empty list, and a query of one of
\* the four never does.
C24_UnsupportedFieldFails ==
    (report.fn \in {"DatabaseManager.distinct_values", "LogDatabase.get_distinct_values"})
       => (report.outcome # "returned"
             <=> report.arg \notin {"site_name", "kst", "activity", "employee"})

\* the id of the entry created last among those in the store: ids are
\* assigned in the order of creation
LastCreated == CHOOSE i \in DOMAIN rows : \A j \in DOMAIN rows : j <= i

\* C25: the latest-entry query returns nothing of an empty store and else
\* the entry created last among those in the store, whichever entries have
\* been updated since and also when another entry was created in the same
\* clock second.  storage keeps created_at to the microsecond: of its stores
\* only those whose entries have different created_at are looked at.
C25_LatestIsLastCreated ==
    ( /\ report.fn \in {"storage.fetch_last_entry", "DatabaseManager.latest_entry",
                         "LogDatabase.get_last_entry"}
      /\ (report.fn = "storage.fetch_last_entry")
            => \A i, j \in DOMAIN rows : rows[i].created_at = rows[j].created_at => i = j )
    => IF DOMAIN rows = {} THEN report.result = << >>
       ELSE /\ Len(report.result) = 1
            /\ report.result[1].id = LastCreated

\* C26: at each of the three rounding functions, a value rounded with a step
\* s > 0 and rounded again with the same step is the value rounded once.
C26_RoundingIdempotent ==
    (calc.fn = "rounding_twice" /\ calc.step > 0)
    => \A site \in {calc.utils, calc.mw, calc.result} :
          site.value[2] = site.value[1]

\* C27: in the window of vermessung_log, after a save whose form passed
\* validation the store holds a row with the data of the form: the row of the
\* entry that was being edited, or a row that was not there before; so also
\* when the entry loaded for editing was deleted before the save.
C27_ValidSaveIsStored ==
    [][ ( /\ variant = "VL"
          /\ last'.op = "save"
          /\ last'.entry # NoEntry )
        => \E i \in DOMAIN rows' :
              /\ i = edit_id \/ i \notin DOMAIN rows
              /\ \A f \in EntryFields : rows'[i][f] = last'.entry[f] ]_vars

\* C28: in LogApp, whenever current_edit_id is set after a step, the entry of
\* that id is in self.entries as the store holds it; and a save that updates
\* does so for an id the store holds, with the created_at of that row (the one
\* _existing_created_at found in self.entries, not the current time).
C28_EditIdIsLoadedAndStored ==
    [][ (variant = "LogApp")
        => /\ (edit_id' # None)
              => /\ edit_id' \in DOMAIN rows'
                 /\ \E k \in DOMAIN table' : table'[k] = row_to_entry(rows'[edit_id'])
           /\ (last'.op = "save" /\ last'.outcome = "updated")
              => /\ edit_id \in DOMAIN rows
                 /\ \E k \in DOMAIN table : table[k].id = edit_id
                 /\ last'.entry.created_at = rows[edit_id].created_at
                 /\ edit_id' = None ]_vars

\* an entry was loaded for editing, and a save updated it at a later clock
\* tick than that of its creation
C28_Witness ==
    /\ variant = "LogApp"
    /\ last.op = "save" /\ last.outcome = "updated"
    /\ last.before # NoEntry
    /\ last.entry.updated_at > last.entry.created_at

\* a step that called insert_entry, update_entry or delete_entry of a store
\* module: directly, or from a save or a delete of a window
StoreWrite(did) ==
    \/ did.op \in {"insert_entry", "update_entry", "delete_entry", "delete"}
    \/ did.op = "save" /\ did.outcome \in {"inserted", "updated"}

\* by how many rows the store grows in such a step
RowsAdded(did, held) ==
    CASE did.op = "insert_entry" \/ did.outcome = "inserted" -> 1
      [] did.op \in {"delete_entry", "delete"} -> IF held THEN -1 ELSE 0
      [] OTHER -> 0

\* C29: insert_entry, update_entry and delete_entry leave every row other
\* than the one of the id given as it was, in every field and both
\* timestamps; the number of rows grows by one with an insert, stays with an
\* update and falls by one with a delete of an id the store holds (storage,
\* DatabaseManager and LogDatabase, called directly or by LogApp and VL).
C29_OtherRowsUntouched ==
    [][ (variant # "MW" /\ StoreWrite(last'))
        => /\ \A i \in DOMAIN rows \ {last'.id} :
                 i \in DOMAIN rows' /\ rows'[i] = rows[i]
           /\ DOMAIN rows' \subseteq DOMAIN rows \cup {last'.id}
           /\ Cardinality(DOMAIN rows') =
                 Cardinality(DOMAIN rows) + RowsAdded(last', last'.id \in DOMAIN rows) ]_vars

\* update_entry was called for the first of two stored rows
C29_Witness ==
    /\ variant = "storage"
    /\ last.op = "update_entry"
    /\ last.id = 1
    /\ DOMAIN rows = {1, 2}
    /\ rows[1].updated_at > rows[2].updated_at


-----------------------------------------------------------------------------
(* Properties of the log with corrections *)

\* C30: in the window of src/main.py on the store of src/db.py no step changes
\* or removes a row the store holds; a save made as a correction adds one row
\* with a new id and is_correction = 1 and leaves the row its corrects_id names
\* as it was; the store changes only in a save whose activity and time share
\* validate_entry accepted, and every row stored has an activity of ACTIVITIES
\* and a time share of TIME_SHARES
C30_LogIsAppendOnly ==
    [][ (variant = "ActivityLogApp")
        => /\ \A i \in DOMAIN rows : i \in DOMAIN rows' /\ rows'[i] = rows[i]
           /\ (last'.op = "save" /\ last'.outcome = "inserted" /\ last'.form.is_correction = 1)
                 => /\ last'.id \notin DOMAIN rows
                    /\ DOMAIN rows' = DOMAIN rows \cup {last'.id}
                    /\ rows'[last'.id].is_correction = 1
                    /\ rows'[last'.id].corrects_id \in DOMAIN rows
                          => rows'[rows'[last'.id].corrects_id] = last'.before
           /\ rows' # rows
                 => /\ last'.op = "save"
                    /\ validate_entry(last'.form.activity, last'.form.time_share).kind = "value"
           /\ \A i \in DOMAIN rows' :
                 rows'[i].activity \in ACTIVITIES /\ rows'[i].time_share \in TIME_SHARES ]_vars

\* a correction of the first row has been saved
C30_Witness ==
    /\ variant = "ActivityLogApp"
    /\ last.op = "save" /\ last.outcome = "inserted"
    /\ DOMAIN rows = {1, 2}
    /\ rows[2].is_correction = 1 /\ rows[2].corrects_id = 1
    /\ rows[1].is_correction = 0


=============================================================================
